---- MODULE Spec2Model ----
(***************************************************************************)
(* A model of @arkahna/git-file-fetch (src/src/index.ts): the reference    *)
(* parser, the retry executor, the retrieval engine, the destination       *)
(* writer, the manifest store and the run orchestrator (main).             *)
(*                                                                         *)
(* Strings of the program are sequences of one-character strings, so that  *)
(* lastIndexOf, slice, split and normalize are computed and not assumed.   *)
(* A function of the program that throws is an operator that returns a     *)
(* record with ok = FALSE and the error's code and message.                *)
(***************************************************************************)
EXTENDS Integers, Sequences, FiniteSets, TLC

(***************************************************************************)
(* Bounds of the model.                                                    *)
(***************************************************************************)
\* The longest list of entries of one run.
MaxEntries == 2
\* The largest retry count the retry executor is exercised with.
MaxRetries == 4
\* The most runs of the tool made one after the other in the same directory.
MaxRuns == 2

(***************************************************************************)
(* The configuration of a run.                                             *)
(***************************************************************************)
VARIABLE
  cfg         \* what main reads from argv and the environment: positional,
              \* config, dryRun, force, eject, retries, backoffMs, timeoutMs,
              \* maxBytes, outDir, manifestPath, quiet, verbose, jsonOutput

\* A flag that is not on the command line, and one with the value v.
NoFlag == [given |-> FALSE]
Flag(v) == [given |-> TRUE, v |-> v]

(***************************************************************************)
(* Strings.                                                                *)
(***************************************************************************)
\* The NUL character ('\0') of a path.
Nul == "NUL"

Max(S) == CHOOSE x \in S : \A y \in S : y <= x

Min(S) == CHOOSE x \in S : \A y \in S : x <= y

\* String.prototype.indexOf for a one-character needle: the first index.
indexOf(s, c) ==
  LET I == {i \in 1..Len(s) : s[i] = c}
  IN IF I = {} THEN 0 ELSE Min(I)

\* A last index that takes a missing character to follow the text.
lastIndexOfOrEnd(s, c) ==
  LET I == {i \in 1..Len(s) : s[i] = c}
  IN IF I = {} THEN Len(s) + 1 ELSE Max(I)

\* String.prototype.lastIndexOf for a one-character needle, 1-based; 0 is
\* JavaScript's -1 (not found).
lastIndexOf(s, c) ==
  LET I == {i \in 1..Len(s) : s[i] = c}
  IN IF I = {} THEN 0 ELSE Max(I)

\* A prefix test that never finds the prefix.
startsWithNever(s, p) == FALSE

\* String.prototype.startsWith.
startsWith(s, p) == Len(s) >= Len(p) /\ SubSeq(s, 1, Len(p)) = p

\* String.prototype.includes.
includes(s, p) ==
  \E i \in 1..(Len(s) + 1) :
     i + Len(p) - 1 <= Len(s) /\ SubSeq(s, i, i + Len(p) - 1) = p

\* String.prototype.split(c) for a one-character separator: the segments
\* between the separators, empty segments kept.
RECURSIVE split(_, _)
split(s, c) ==
  LET I == {i \in 1..Len(s) : s[i] = c}
  IN IF I = {} THEN <<s>>
     ELSE LET i == Max(I)
          IN Append(split(SubSeq(s, 1, i - 1), c), SubSeq(s, i + 1, Len(s)))

\* Array.prototype.join(c).
RECURSIVE join(_, _)
join(segs, c) ==
  IF Len(segs) = 0 THEN <<>>
  ELSE IF Len(segs) = 1 THEN segs[1]
  ELSE join(SubSeq(segs, 1, Len(segs) - 1), c) \o <<c>> \o segs[Len(segs)]

\* inputPath.replace(/\\/g, '/').
replaceBackslashes(s) == [i \in 1..Len(s) |-> IF s[i] = "\\" THEN "/" ELSE s[i]]

\* The segment walk of path.posix.normalize (Node's normalizeString): empty
\* and '.' segments are dropped, '..' removes the segment before it when that
\* is not itself '..', and is kept (relative path) or dropped (absolute path)
\* otherwise.
RECURSIVE normalizeSegments(_, _, _)
normalizeSegments(segs, acc, allowAboveRoot) ==
  IF Len(segs) = 0 THEN acc
  ELSE LET h == Head(segs)
           t == Tail(segs)
       IN IF h = <<>> \/ h = <<".">> THEN normalizeSegments(t, acc, allowAboveRoot)
          ELSE IF h = <<".", ".">>
            THEN IF Len(acc) > 0 /\ acc[Len(acc)] # <<".", ".">>
                   THEN normalizeSegments(t, SubSeq(acc, 1, Len(acc) - 1), allowAboveRoot)
                 ELSE IF allowAboveRoot
                   THEN normalizeSegments(t, Append(acc, h), allowAboveRoot)
                 ELSE normalizeSegments(t, acc, allowAboveRoot)
          ELSE normalizeSegments(t, Append(acc, h), allowAboveRoot)

\* path.posix.normalize.
posixNormalize(p) ==
  IF Len(p) = 0 THEN <<".">>
  ELSE LET isAbsolute == p[1] = "/"
           trailing == p[Len(p)] = "/"
           body == join(normalizeSegments(split(p, "/"), <<>>, ~isAbsolute), "/")
       IN IF Len(body) = 0
            THEN IF isAbsolute THEN <<"/">>
                 ELSE IF trailing THEN <<".", "/">> ELSE <<".">>
          ELSE (IF isAbsolute THEN <<"/">> ELSE <<>>) \o body
               \o (IF trailing THEN <<"/">> ELSE <<>>)

(***************************************************************************)
(* Errors: a thrown value is [ok |-> FALSE, cli, code, message]; cli says  *)
(* whether it is a CliError.                                               *)
(***************************************************************************)
CliError(code, message) ==
  [ok |-> FALSE, cli |-> TRUE, code |-> code, message |-> message]

\* Any other thrown value (an Error of the file system): not a CliError.
FsError(message) ==
  [ok |-> FALSE, cli |-> FALSE, code |-> "", message |-> message]

\* normalizeAndValidateRelativePath: the normalized path, or INVALID_PATH.
normalizeAndValidateRelativePath(inputPath) ==
  LET forward == replaceBackslashes(inputPath)
      normalized == posixNormalize(forward)
  IN IF startsWith(normalized, <<".", ".">>)
        \/ includes(normalized, <<"/", ".", ".", "/">>)
        \/ normalized = <<".", ".">>
       THEN CliError("INVALID_PATH", <<"traversal", inputPath>>)
     ELSE IF startsWith(normalized, <<"/">>) \/ startsWith(normalized, <<"~">>)
       THEN CliError("INVALID_PATH", <<"absolute", inputPath>>)
     ELSE IF includes(normalized, <<Nul>>)
       THEN CliError("INVALID_PATH", <<"nullbyte", inputPath>>)
     ELSE [ok |-> TRUE, path |-> normalized]

\* The default ref of a reference that names none.
DefaultRef == <<"m", "a", "i", "n">>

\* parseRef: '<repo>@<ref>:<path>', split at the last ':' and at the last '@'
\* before it. path.sep is '/' (a POSIX host), so destPath = filePath.
parseRef(input) ==
  LET idx == lastIndexOf(input, ":")
  IN IF idx = 0 THEN CliError("INVALID_REF_FORMAT", <<"format", input>>)
     ELSE LET repoRef == SubSeq(input, 1, idx - 1)
              filePathRaw == SubSeq(input, idx + 1, Len(input))
              at == lastIndexOf(repoRef, "@")
              repo == IF at = 0 THEN repoRef ELSE SubSeq(repoRef, 1, at - 1)
              ref == IF at = 0 THEN DefaultRef ELSE SubSeq(repoRef, at + 1, Len(repoRef))
              safe == normalizeAndValidateRelativePath(filePathRaw)
          IN IF ~safe.ok THEN safe
             ELSE [ok |-> TRUE,
                   remote |-> [repo |-> repo, ref |-> ref,
                               filePath |-> safe.path,
                               destPath |-> join(split(safe.path, "/"), "/")]]

(***************************************************************************)
(* The file system under the working directory.  A path is the sequence of *)
(* its segments from the root; fs maps each existing path to its node, a   *)
(* directory or a file with its data.  The data of a file is a fetched     *)
(* blob or the text JSON.stringify wrote.                                  *)
(***************************************************************************)
DirNode == [type |-> "dir"]
FileNode(data) == [type |-> "file", data |-> data]

\* fs.existsSync.
existsSync(f, p) == p \in DOMAIN f

\* path.dirname of a resolved path.
dirname(p) == IF Len(p) = 0 THEN p ELSE SubSeq(p, 1, Len(p) - 1)

Prefixes(p) == {SubSeq(p, 1, k) : k \in 0..Len(p)}

\* fs.mkdirSync(dir, { recursive: true }): every missing directory of the
\* path is created; it throws when a segment of the path is a file.
mkdirSyncRecursive(f, dir) ==
  IF \E q \in Prefixes(dir) : q \in DOMAIN f /\ f[q].type = "file"
    THEN FsError("ENOTDIR")
  ELSE [ok |-> TRUE,
        fs |-> [q \in DOMAIN f \cup Prefixes(dir) |->
                  IF q \in DOMAIN f THEN f[q] ELSE DirNode]]

\* ensureDirFor.
ensureDirFor(f, filePath) ==
  IF existsSync(f, dirname(filePath)) THEN [ok |-> TRUE, fs |-> f]
  ELSE mkdirSyncRecursive(f, dirname(filePath))

\* fs.writeFileSync(path, data).
writeFileSync(f, p, data) ==
  IF p \in DOMAIN f /\ f[p].type = "dir" THEN FsError("EISDIR")
  ELSE IF dirname(p) \notin DOMAIN f THEN FsError("ENOENT")
  ELSE IF f[dirname(p)].type = "file" THEN FsError("ENOTDIR")
  ELSE [ok |-> TRUE,
        fs |-> [q \in DOMAIN f \cup {p} |-> IF q = p THEN FileNode(data) ELSE f[q]]]

\* path.resolve(base, rel) for a resolved base: the segments of the
\* normalized join; an absolute rel replaces the base.
resolve(base, rel) ==
  IF Len(rel) > 0 /\ rel[1] = "/"
    THEN normalizeSegments(split(rel, "/"), <<>>, FALSE)
  ELSE normalizeSegments(base \o split(rel, "/"), <<>>, FALSE)

\* The string of a resolved path: '/' + its segments joined by '/'.
pathString(p) == <<"/">> \o join(p, "/")

(***************************************************************************)
(* The logger.                                                             *)
(***************************************************************************)
\* redactSecrets: input.replace(/:\/\/[^@\s]+@/g, '://***@').  A match starts
\* at a '://' that is followed by one or more characters other than '@' and
\* white space and then by '@'; the matches are replaced from left to right.
RECURSIVE redactSecrets(_)
redactSecrets(input) ==
  LET matches ==
        {k \in 1..(Len(input) - 4) :
           /\ SubSeq(input, k, k + 2) = <<":", "/", "/">>
           /\ \E j \in (k + 4)..Len(input) :
                 /\ input[j] = "@"
                 /\ \A m \in (k + 3)..(j - 1) : input[m] \notin {"@", " "}}
  IN IF matches = {} THEN input
     ELSE LET k == Min(matches)
              j == Min({m \in (k + 4)..Len(input) : input[m] = "@"})
          IN SubSeq(input, 1, k - 1) \o <<":", "/", "/", "***", "@">>
               \o redactSecrets(SubSeq(input, j + 1, Len(input)))

\* A quiet that --json does not force.
quietFlagOnly == cfg.quiet

\* const quiet = jsonOutput ? true : quietFlag.
quiet == IF cfg.jsonOutput THEN TRUE ELSE cfg.quiet

\* The logger of createLogger(quiet, verboseFlag): what the console holds
\* after logger.<level>(message) when it held c.  log and verbose write with
\* console.log, warn with console.warn, error with console.error.
logger(c, level, message) ==
  IF \/ level = "error"
     \/ level \in {"log", "warn"} /\ ~quiet
     \/ level = "verbose" /\ ~quiet /\ cfg.verbose
    THEN Append(c, [method |-> IF level = "verbose" THEN "log" ELSE level,
                    text |-> redactSecrets(message)])
  ELSE c

(***************************************************************************)
(* The remote repository and the blobs it holds.                           *)
(***************************************************************************)
NoBlob == [kind |-> "none"]
Blob(id, len) == [kind |-> "blob", id |-> id, len |-> len]

\* src/src/index.ts:13
defaultMaxBytes == 10000000

\* The tree of the remote at a commit: the blob at a path, if any.
blobAt(commit, filePath) ==
  CASE filePath = <<"a">> -> Blob(<<"a", commit>>, 3)
    [] filePath = <<"a", "/", "b">> -> Blob(<<"ab", commit>>, defaultMaxBytes)
    [] filePath = <<"b">> -> Blob(<<"b", commit>>, 3)
    [] filePath = <<"g">> -> Blob(<<"g", commit>>, defaultMaxBytes + 1)
    [] filePath = <<".git-remote-files.json">> -> Blob(<<"json", commit>>, 3)
    [] OTHER -> NoBlob

\* Buffer.length of fetched contents.
length(contents) == contents.len

(***************************************************************************)
(* The manifest store.                                                     *)
(***************************************************************************)
\* src/src/index.ts:12, one segment of a path.
defaultManifestFile == <<".git-remote-files.json">>

\* JSON.stringify(existing, null, 2): the text of an array of entries.
jsonStringify(list) == [kind |-> "json", value |-> list]

\* JSON.parse of a file's data, and Array.isArray of the result: the array
\* a stringified array reads back as; a fetched blob is no JSON array.
jsonParseArray(data) ==
  IF data.kind = "json" THEN data.value ELSE <<>>

\* Text that JSON.parse rejects, and the text of a JSON value that is no
\* array (an object).
MalformedText == [kind |-> "text"]
JsonObjectText == [kind |-> "json-object"]

\* A reader that throws on text that is no JSON array.
readManifestStrict(f, manifestPath) ==
  IF ~existsSync(f, manifestPath) THEN [ok |-> TRUE, value |-> <<>>]
  ELSE IF f[manifestPath].type = "dir" THEN FsError("EISDIR")
  ELSE IF f[manifestPath].data.kind # "json" THEN FsError("SyntaxError")
  ELSE [ok |-> TRUE, value |-> f[manifestPath].data.value]

\* readManifest: [] for a missing file, for malformed JSON and for JSON that
\* is no array; readFileSync throws on a directory.
readManifest(f, manifestPath) ==
  IF ~existsSync(f, manifestPath) THEN [ok |-> TRUE, value |-> <<>>]
  ELSE IF f[manifestPath].type = "dir" THEN FsError("EISDIR")
  ELSE [ok |-> TRUE, value |-> jsonParseArray(f[manifestPath].data)]

\* A rewrite that appends to what the file holds when it is rewritten.
rewriteManifestMerging(f, manifestPath, existing, remote) ==
  LET dir == ensureDirFor(f, manifestPath)
  IN IF ~dir.ok THEN dir
     ELSE writeFileSync(dir.fs, manifestPath,
                        jsonStringify(Append(readManifest(f, manifestPath).value, remote)))

\* The second half of updateManifest, for the array `existing` that was
\* read: existing.push(remote), ensureDirFor, writeFileSync of the whole array.
rewriteManifest(f, manifestPath, existing, remote) ==
  LET dir == ensureDirFor(f, manifestPath)
  IN IF ~dir.ok THEN dir
     ELSE writeFileSync(dir.fs, manifestPath, jsonStringify(Append(existing, remote)))

\* updateManifest: read all, push, ensureDirFor, rewrite all.
updateManifest(f, manifestPath, remote) ==
  LET existing == readManifest(f, manifestPath)
  IN IF ~existing.ok THEN existing
     ELSE rewriteManifest(f, manifestPath, existing.value, remote)

(***************************************************************************)
(* The config file (--config).  The file is missing, or holds text that is *)
(* no JSON, JSON that is no array, or a JSON array of items; an item is a  *)
(* string, an object or a value of another type; a field of an object is   *)
(* absent, a string or a value of another type.                            *)
(***************************************************************************)
Absent == [t |-> "absent"]
Str(v) == [t |-> "string", v |-> v]
NotAString == [t |-> "number"]

StringItem(v) == [type |-> "string", value |-> v]
ObjectItem(repo, ref, path, filePath, dest, destPath) ==
  [type |-> "object", repo |-> repo, ref |-> ref, path |-> path,
   filePath |-> filePath, dest |-> dest, destPath |-> destPath]
NumberItem == [type |-> "number"]

MissingFile == [kind |-> "missing"]

\* a ?? b.
coalesce(a, b) == IF a.t = "absent" THEN b ELSE a

\* The body of the loop of loadConfigFile for one item: the entry
\* '<repo>@<ref>:<path>' it pushes, or CONFIG_INVALID.  destVal is computed
\* and dropped (void destVal).
configEntry(item) ==
  IF item.type = "string" THEN [ok |-> TRUE, spec |-> item.value]
  ELSE IF item.type = "object"
    THEN LET repoVal == item.repo
             refVal == coalesce(item.ref, Str(DefaultRef))
             pathVal == coalesce(item.path, item.filePath)
             destVal == coalesce(item.dest, item.destPath)
         IN IF repoVal.t # "string" \/ pathVal.t # "string"
              THEN CliError("CONFIG_INVALID", <<"fields">>)
            ELSE [ok |-> TRUE,
                  spec |-> repoVal.v \o <<"@">>
                           \o (IF refVal.t = "string" THEN refVal.v ELSE DefaultRef)
                           \o <<":">> \o pathVal.v]
  ELSE CliError("CONFIG_INVALID", <<"type">>)

\* A loop that skips the items that are invalid.
RECURSIVE loadConfigItemsSkipping(_, _)
loadConfigItemsSkipping(items, out) ==
  IF Len(items) = 0 THEN [ok |-> TRUE, value |-> out]
  ELSE LET e == configEntry(Head(items))
       IN loadConfigItemsSkipping(Tail(items), IF e.ok THEN Append(out, e.spec) ELSE out)

\* The loop of loadConfigFile: the entries of the items, in order; the
\* first item that is invalid throws.
RECURSIVE loadConfigItems(_, _)
loadConfigItems(items, out) ==
  IF Len(items) = 0 THEN [ok |-> TRUE, value |-> out]
  ELSE LET e == configEntry(Head(items))
       IN IF ~e.ok THEN e ELSE loadConfigItems(Tail(items), Append(out, e.spec))

\* loadConfigFile.
loadConfigFile(file) ==
  IF file.kind = "missing" THEN CliError("CONFIG_NOT_FOUND", <<"notfound">>)
  ELSE IF file.kind = "text" THEN CliError("CONFIG_PARSE_ERROR", <<"parse">>)
  ELSE IF file.kind # "json" THEN CliError("CONFIG_INVALID", <<"array">>)
  ELSE loadConfigItems(file.value, <<>>)

\* No --config on the command line.
NoConfig == [kind |-> "none"]

\* What loadConfigFile(configFlag) returns or throws; no entry without
\* --config.
configEntries ==
  IF cfg.config = NoConfig THEN [ok |-> TRUE, value |-> <<>>]
  ELSE loadConfigFile(cfg.config)

\* entries of main: the positional entries, then those of the config file.
entries ==
  cfg.positional \o (IF configEntries.ok THEN configEntries.value ELSE <<>>)

(***************************************************************************)
(* The destination writer.                                                 *)
(***************************************************************************)
\* process.cwd(), after the chdir of --cwd.
cwd == << <<"w">> >>

\* destRootDir for a value of --out: resolve(outDirFlag), or process.cwd()
\* without the flag.
rootOf(outDirFlag) == IF outDirFlag = NoFlag THEN cwd ELSE resolve(cwd, outDirFlag.v)

\* destRootDir of the run.
destRootDir == rootOf(cfg.outDir)

\* manifestPath for a value of --manifest and the output root:
\* resolve(manifestFlag), or resolve(destRootDir, defaultManifestFile)
\* without the flag.
manifestPathOf(manifestFlag, root) ==
  IF manifestFlag = NoFlag THEN Append(root, defaultManifestFile)
  ELSE resolve(cwd, manifestFlag.v)

\* A containment check that lets every destination through.
escapesRootNever(resolvedDest, resolvedBase) == FALSE

\* The containment check of writeDestFile: the resolved destination neither
\* starts with the resolved root followed by path.sep nor is the root.
escapesRoot(resolvedDest, resolvedBase) ==
  ~startsWith(resolvedDest, resolvedBase \o <<"/">>) /\ resolvedDest # resolvedBase

\* A writer without the size check.
tooLargeNever(len, limit) == FALSE

\* A ceiling that already rejects content of exactly the limit.
tooLargeAtLimit(len, limit) == len >= limit

\* The size check of writeDestFile: contents.length > maxBytes.
tooLarge(len, limit) == len > limit

\* A writer that never skips an existing destination.
skipsExistingNever(exists, forceFlag) == FALSE

\* The skip of writeDestFile: existsSync(destFile) && !force.
skipsExisting(exists, forceFlag) == exists /\ ~forceFlag

\* A writer that writes in a dry run too.
writesFileAlways(dry) == TRUE

\* if (!dryRun) of writeDestFile.
writesFile(dry) == ~dry

\* writeDestFile: containment, size ceiling, skip of an existing file, write;
\* logged is the call of the logger it makes.
writeDestFile(f, contents, remote, dry, forceFlag, limit) ==
  LET destFile == resolve(destRootDir, remote.destPath)
      resolvedBase == pathString(destRootDir)
      resolvedDest == pathString(destFile)
  IN IF escapesRoot(resolvedDest, resolvedBase)
       THEN CliError("DEST_OUT_OF_BOUNDS", <<"escapes", remote.destPath>>)
     ELSE IF tooLarge(length(contents), limit)
       THEN CliError("FILE_TOO_LARGE", <<"toolarge", remote.filePath, length(contents), limit>>)
     ELSE IF skipsExisting(existsSync(f, destFile), forceFlag)
       THEN [ok |-> TRUE, destFile |-> destFile, wrote |-> FALSE, fs |-> f,
             logged |-> [level |-> "warn",
                         message |-> <<"Skipping existing '">> \o resolvedDest
                                       \o <<"'. Use --force to overwrite.">>]]
     ELSE LET dir == IF writesFile(dry) THEN ensureDirFor(f, destFile) ELSE [ok |-> TRUE, fs |-> f]
              w == IF writesFile(dry) /\ dir.ok
                     THEN writeFileSync(dir.fs, destFile, contents) ELSE dir
          IN IF ~w.ok THEN w
             ELSE [ok |-> TRUE, destFile |-> destFile, wrote |-> ~dry, fs |-> w.fs,
                   logged |-> [level |-> "log",
                               message |-> <<"Fetched ">> \o remote.filePath \o <<" from ">>
                                             \o remote.repo \o <<"@">> \o remote.ref
                                             \o <<" -> ">> \o resolvedDest]]

(***************************************************************************)
(* The state of one run.                                                   *)
(***************************************************************************)
VARIABLES
  pc,         \* where main is
  i,          \* the index of the entry the for-of loop is at (1-based)
  results,    \* results: FetchResult[]
  exitCode,   \* the status the process ends with (process.exitCode)
  tmp,        \* the directories in os.tmpdir(): [name, by], by the run or by others
  tempDir,    \* tempDir of the current iteration, NoDir outside one
  remote,     \* the parsed RemoteFile of the current item
  step,       \* the step of fetchFileMinimal that runs or runs next
  attempt,    \* attempt of the current runGitWithRetry call
  lastError,  \* lastError of the current runGitWithRetry call
  fetchHead,  \* FETCH_HEAD of the scratch repository
  sha,        \* the output of rev-parse FETCH_HEAD
  contents,   \* the output of git show
  result,     \* what writeDestFile returned
  console,    \* the lines written with console.log, console.warn, console.error
  fs,         \* the file system under the working directory
  remoteHead, \* the commit the remote's refs point to
  run,        \* the number of the run of the tool (1-based)
  fs0,        \* observed: the file system when the run started
  prevRun,    \* observed: which items of the run before this one succeeded
  proc,       \* the runs of the tool that execute beside this one, each at its step
  calls,      \* observed: the runGitWithRetry calls of the current item that returned or threw
  gitLog      \* observed: the attempts and waits of the latest runGitWithRetry call

vars == <<cfg, pc, i, results, exitCode, tmp, tempDir, remote, step, attempt,
          lastError, fetchHead, sha, contents, result, console, fs, remoteHead,
          run, fs0, prevRun, proc, calls, gitLog>>

NoDir == ""
NoProcs == <<>>
NoRemote == [repo |-> <<>>, ref |-> <<>>, filePath |-> <<>>, destPath |-> <<>>]
NoResult == [destFile |-> <<>>, wrote |-> FALSE]
\* String(undefined), the message when lastError was never assigned.
Undefined == "undefined"

\* The steps of fetchFileMinimal, in the order of its calls.
Protocol == <<"init", "remote-add", "fetch", "rev-parse", "show">>

\* The messages of a failed attempt that is no missing path.
FailMessages == {"ETIMEDOUT", "exit 128"}
\* git show's failure when the path is not in the commit's tree.
NoPathMessage == "path does not exist"

\* What one execFileSync('git', ...) of a step can do: return its output or
\* throw (non-zero exit, or, for a child that stalls, ETIMEDOUT when it is
\* killed at timeoutMs).
execFileSync(s, commit, filePath) ==
  LET thrown == {[ok |-> FALSE, message |-> m] : m \in FailMessages}
  IN IF s = 5
       THEN IF blobAt(commit, filePath) = NoBlob
              THEN thrown \cup {[ok |-> FALSE, message |-> NoPathMessage]}
            ELSE thrown \cup {[ok |-> TRUE, message |-> ""]}
     ELSE thrown \cup {[ok |-> TRUE, message |-> ""]}

\* A read of the path at the commit the remote's ref points to now.
gitShowAtRemote(commit, head, filePath) == blobAt(head, filePath)

\* What git show `${commitSha}:${filePath}` prints in the scratch repository:
\* the blob of the path at that commit, wherever the remote's ref (head) is
\* by now.
gitShow(commit, head, filePath) == blobAt(commit, filePath)

\* The timeout option of execFileSync: the child is killed after timeoutMs
\* when timeoutMs is positive; 0 sets no timer.
killsAtTimeout(timeoutMs) == timeoutMs > 0

\* The delay before the retry that follows failed attempt number `a`.
RECURSIVE pow2(_)
pow2(n) == IF n <= 0 THEN 1 ELSE 2 * pow2(n - 1)
\* A backoff that grows linearly.
retryDelayLinear(backoffMs, a) == backoffMs * (a + 1)

retryDelay(backoffMs, a) == backoffMs * pow2(a)

\* A loop that stops one attempt early (attempt < retries).
loopRunsOneShort(a, retries) == a < retries

\* The condition of the loop of runGitWithRetry: attempt <= retries.
loopRuns(a, retries) == a <= retries

\* An executor that never retries.
retriesNever(a, retries) == FALSE

\* Whether the loop of runGitWithRetry retries after failed attempt `a`.
retriesAfter(a, retries) == a < retries

\* What runGitWithRetry throws after its loop.
gitCommandFailed(err) == CliError("GIT_COMMAND_FAILED", err)

\* A retrieval engine that reports every failed call as a missing file.
fetchErrorAlwaysNotFound(s, e, r) ==
  CliError("SOURCE_FILE_NOT_FOUND",
           <<"notfound", r.filePath, redactSecrets(r.repo \o <<"@">> \o r.ref), e.message>>)

\* What fetchFileMinimal throws for an error of one of its calls: the call
\* of git show is wrapped in a try whose catch throws SOURCE_FILE_NOT_FOUND.
fetchError(s, e, r) ==
  IF s = 5
    THEN CliError("SOURCE_FILE_NOT_FOUND",
                  <<"notfound", r.filePath, redactSecrets(r.repo \o <<"@">> \o r.ref),
                    e.message>>)
  ELSE e

\* The arguments of the git command of a step, as args.join(' ').
gitArgs(s, r, commit) ==
  CASE s = 1 -> <<"init -q">>
    [] s = 2 -> <<"remote add origin ">> \o r.repo
    [] s = 3 -> <<"fetch --depth 1 origin ">> \o r.ref
    [] s = 4 -> <<"rev-parse FETCH_HEAD">>
    [] s = 5 -> <<"show ", commit, ":">> \o r.filePath

\* The warning of runGitWithRetry before it waits.
retryWarning(s, r, commit, a, retries, delay) ==
  <<"git ">> \o gitArgs(s, r, commit)
    \o <<" failed (attempt ", ToString(a + 1), " of ", ToString(retries + 1),
         "). Retrying in ", ToString(delay), "ms...">>

\* The line of fetchFileMinimal for --verbose.
shallowFetchLine(r) ==
  <<"Shallow fetch of ">> \o r.repo \o <<"@">> \o r.ref
    \o <<" without checkout (git fetch + git show)">>

\* The text of the message of an error with this code.
messageText(code, message) ==
  CASE code = "INVALID_REF_FORMAT" -> <<"Invalid ref '">> \o message[2] \o <<"'">>
    [] code = "INVALID_PATH" -> <<"Invalid path '">> \o message[2] \o <<"'">>
    [] code = "SOURCE_FILE_NOT_FOUND" ->
         <<"Source file '">> \o message[2] \o <<"' not found in ">> \o message[3]
           \o <<" (", message[4], ")">>
    [] code = "FILE_TOO_LARGE" ->
         <<"Source file '">> \o message[2]
           \o <<"' is too large (", ToString(message[3]), " bytes). Limit is ",
                ToString(message[4]), " bytes.">>
    [] code = "DEST_OUT_OF_BOUNDS" ->
         <<"Destination escapes output directory: '">> \o message[2] \o <<"'">>
    [] code \in {"CONFIG_NOT_FOUND", "CONFIG_PARSE_ERROR", "CONFIG_INVALID"} -> message
    [] OTHER -> <<message>>

\* `Error: ${code}: ${message}` of the catch blocks of main.
errorLine(code, message) == <<"Error: ", code, ": ">> \o messageText(code, message)

\* The text of one FetchResult in JSON.stringify({ results }, null, 2): its
\* fields, as they are.
resultText(r) ==
  IF r.success
    THEN <<"{input: ">> \o r.input \o <<", success: true, destFile: ">>
           \o pathString(r.destFile) \o <<", remote: {repo: ">> \o r.remote.repo
           \o <<", ref: ">> \o r.remote.ref \o <<", filePath: ">> \o r.remote.filePath
           \o <<", destPath: ">> \o r.remote.destPath
           \o <<", commitSha: ", r.remote.commitSha, "}}">>
  ELSE <<"{input: ">> \o r.input \o <<", success: false, errorCode: ", r.errorCode,
         ", errorMessage: ">> \o messageText(r.errorCode, r.errorMessage) \o <<"}">>

RECURSIVE resultsText(_)
resultsText(rs) ==
  IF Len(rs) = 0 THEN <<>> ELSE resultText(Head(rs)) \o resultsText(Tail(rs))

\* if (jsonOutput) console.log(JSON.stringify({ results }, null, 2)).
jsonDocument(c, rs) ==
  IF cfg.jsonOutput
    THEN Append(c, [method |-> "log", text |-> <<"{results: [">> \o resultsText(rs) \o <<"]}">>])
  ELSE c

\* A cleanup that removes nothing (the finally block forgotten).
rmSyncForgotten(dirs, d) == dirs

\* rmSync(tempDir, { recursive: true, force: true }).
rmSync(dirs, d) == {e \in dirs : e.name # d}

\* mkdirSync(dir) of fsTempDir: throws EEXIST when the name exists.
mkdirSync(dirs, d) ==
  IF \E e \in dirs : e.name = d THEN FsError("EEXIST")
  ELSE [ok |-> TRUE, dirs |-> dirs \cup {[name |-> d, by |-> "run"]}]

\* A lastError that keeps the first failure of the call.
nextLastErrorKeepsFirst(prev, message) == IF prev = Undefined THEN message ELSE prev

\* lastError = e, in the catch of an attempt.
nextLastError(prev, message) == message

\* A condition that leaves the manifest alone in a quiet run.
recordsManifestUnlessQuiet(dry, wrote, ej) == ~dry /\ wrote /\ ~ej /\ ~quiet

\* A condition that forgets to look at result.wrote.
recordsManifestIgnoringWrote(dry, wrote, ej) == ~dry /\ ~ej

\* The condition under which main updates the manifest.
recordsManifest(dry, wrote, ej) == ~dry /\ wrote /\ ~ej

\* A catch that reports the code of whatever it caught.
errorCodeAsThrown(e) == e.code

\* The code of a caught value.
errorCodeOf(e) == IF e.cli THEN e.code ELSE "UNKNOWN_ERROR"

\* The finally block of an iteration, and the loop's advance; after the
\* last iteration, the JSON document.  c is the console after the try and
\* catch blocks.
Finally(c) ==
  /\ tmp' = rmSync(tmp, tempDir)
  /\ tempDir' = NoDir
  /\ i' = i + 1
  /\ pc' = IF i >= Len(entries) THEN "done" ELSE "alloc"
  /\ console' = IF i >= Len(entries) THEN jsonDocument(c, results') ELSE c

\* The catch block of an iteration for the thrown value e, then finally.
Catch(e) ==
  /\ results' = Append(results, [input |-> entries[i], success |-> FALSE,
                                 errorCode |-> errorCodeOf(e),
                                 errorMessage |-> e.message])
  /\ exitCode' = 1
  /\ Finally(logger(console, "error", errorLine(errorCodeOf(e), e.message)))

\* The end of the try block: the success result, then finally.
Succeed(r) ==
  /\ results' = Append(results, [input |-> entries[i], success |-> TRUE,
                                 destFile |-> r.destFile, remote |-> remote])
  /\ exitCode' = exitCode
  /\ Finally(console)

(***************************************************************************)
(* The actions of main.                                                    *)
(***************************************************************************)
itemVars == <<remote, step, attempt, lastError, fetchHead, sha, contents, result>>

\* The values Date.now() returns during a run.
Times == {"1762300000001", "1762300000002"}

\* The name fsTempDir gives the directory it makes at time t.
tempName(t) == <<"arkahna-git-file-fetch-", t>>

\* The text printHelp prints.
usage == <<"git-file-fetch - Fetch specific files from remote Git repositories">>

\* main from the load of the config file to the loop: a config file that
\* does not load ends the process with status 1 (process.exit(1));
\* entries.length === 0: usage, exit 2; otherwise the loop starts.
Start ==
  /\ pc = "start"
  /\ IF ~configEntries.ok
       THEN /\ pc' = "exit" /\ exitCode' = 1
            /\ console' = logger(console, "error",
                                 errorLine(configEntries.code, configEntries.message))
     ELSE IF Len(entries) = 0
       THEN /\ pc' = "exit" /\ exitCode' = 2
            /\ console' = Append(console, [method |-> "log", text |-> usage])
       ELSE pc' = "alloc" /\ exitCode' = exitCode /\ console' = console
  /\ UNCHANGED <<cfg, run, fs0, prevRun, proc, i, results, tmp, tempDir, itemVars, fs, remoteHead, calls, gitLog>>

\* const tempDir = fsTempDir(), before the try of the iteration: mkdirSync
\* throws EEXIST when the name exists, nothing catches it, and the process
\* ends with status 1 (uncaught exception).
AllocScratch ==
  /\ pc = "alloc"
  /\ \E t \in Times :
       LET made == mkdirSync(tmp, tempName(t))
       IN IF ~made.ok
         THEN /\ pc' = "crashed"
              /\ exitCode' = 1
              /\ UNCHANGED <<tmp, tempDir, calls, gitLog>>
         ELSE /\ pc' = "parse"
              /\ tmp' = made.dirs
              /\ tempDir' = tempName(t)
              /\ calls' = <<>>
              /\ gitLog' = <<>>
              /\ exitCode' = exitCode
  /\ remote' = NoRemote /\ step' = 0 /\ attempt' = 0 /\ lastError' = Undefined
  /\ fetchHead' = "" /\ sha' = "" /\ contents' = NoBlob /\ result' = NoResult
  /\ UNCHANGED <<cfg, run, fs0, prevRun, proc, i, results, fs, remoteHead, console>>

\* const remote = parseRef(arg); then fetchFileMinimal makes repoDir in the
\* scratch directory and starts its first call.
ParseItem ==
  /\ pc = "parse"
  /\ LET r == parseRef(entries[i])
     IN IF r.ok
          THEN /\ remote' = r.remote
               /\ step' = 1 /\ attempt' = 0 /\ lastError' = Undefined
               /\ pc' = "git"
               /\ console' = logger(console, "verbose", shallowFetchLine(r.remote))
               /\ UNCHANGED <<i, results, exitCode, tmp, tempDir>>
          ELSE /\ Catch(r)
               /\ UNCHANGED <<remote, step, attempt, lastError>>
  /\ UNCHANGED <<cfg, run, fs0, prevRun, proc, fetchHead, sha, contents, result, fs, remoteHead, calls, gitLog>>

\* One pass of the loop of runGitWithRetry for the current step, and, when
\* the call returns or throws, what fetchFileMinimal does with it; when git
\* show returns, main sets remote.commitSha = commitSha.
GitAttempt ==
  /\ pc = "git"
  /\ IF ~loopRuns(attempt, cfg.retries)
       THEN \* the loop ends (with retries < 0 its body never ran, and
            \* lastError is undefined)
            /\ calls' = Append(calls, [cmd |-> Protocol[step], ok |-> FALSE])
            /\ gitLog' = IF attempt = 0 THEN <<>> ELSE gitLog
            /\ Catch(fetchError(step, gitCommandFailed(lastError), remote))
            /\ UNCHANGED itemVars
       ELSE \E out \in execFileSync(step, sha, remote.filePath) :
              IF out.message = "ETIMEDOUT" /\ ~killsAtTimeout(cfg.timeoutMs)
                THEN \* the attempt stalls and nothing kills it
                     /\ pc' = "hung"
                     /\ UNCHANGED <<i, results, exitCode, tmp, tempDir, itemVars, console,
                                    calls, gitLog>>
              ELSE
              LET log == Append(IF attempt = 0 THEN <<>> ELSE gitLog,
                                [ev |-> "attempt", n |-> attempt + 1, ok |-> out.ok,
                                 message |-> out.message, delay |-> 0])
              IN IF out.ok
                   THEN /\ gitLog' = log
                        /\ calls' = Append(calls, [cmd |-> Protocol[step], ok |-> TRUE])
                        /\ fetchHead' = IF step = 3 THEN remoteHead ELSE fetchHead
                        /\ sha' = IF step = 4 THEN fetchHead ELSE sha
                        /\ contents' = IF step = 5 THEN gitShow(sha, remoteHead, remote.filePath)
                                         ELSE contents
                        /\ remote' = IF step = 5
                                       THEN [repo |-> remote.repo, ref |-> remote.ref,
                                             filePath |-> remote.filePath,
                                             destPath |-> remote.destPath,
                                             commitSha |-> sha]
                                     ELSE remote
                        /\ step' = IF step = 5 THEN step ELSE step + 1
                        /\ attempt' = 0
                        /\ lastError' = Undefined
                        /\ pc' = IF step = 5 THEN "write" ELSE "git"
                        /\ UNCHANGED <<i, results, exitCode, tmp, tempDir, result, console>>
                 ELSE IF retriesAfter(attempt, cfg.retries)
                   THEN /\ gitLog' = Append(log, [ev |-> "wait", n |-> attempt + 1,
                                                  ok |-> FALSE, message |-> "",
                                                  delay |-> retryDelay(cfg.backoffMs, attempt)])
                        /\ attempt' = attempt + 1
                        /\ lastError' = nextLastError(lastError, out.message)
                        /\ console' = logger(console, "warn",
                                             retryWarning(step, remote, sha, attempt, cfg.retries,
                                                          retryDelay(cfg.backoffMs, attempt)))
                        /\ UNCHANGED <<pc, i, results, exitCode, tmp, tempDir, remote, step,
                                       fetchHead, sha, contents, result, calls>>
                 ELSE /\ gitLog' = log
                      /\ calls' = Append(calls, [cmd |-> Protocol[step], ok |-> FALSE])
                      /\ lastError' = nextLastError(lastError, out.message)
                      /\ Catch(fetchError(step,
                                          gitCommandFailed(nextLastError(lastError, out.message)),
                                          remote))
                      /\ UNCHANGED <<remote, step, attempt, fetchHead, sha, contents, result>>
  /\ UNCHANGED <<cfg, run, fs0, prevRun, proc, fs, remoteHead>>

\* const result = writeDestFile(...).
WriteDest ==
  /\ pc = "write"
  /\ LET r == writeDestFile(fs, contents, remote, cfg.dryRun, cfg.force, cfg.maxBytes)
     IN IF r.ok
          THEN /\ fs' = r.fs
               /\ result' = [destFile |-> r.destFile, wrote |-> r.wrote]
               /\ pc' = "record"
               /\ console' = logger(console, r.logged.level, r.logged.message)
               /\ UNCHANGED <<i, results, exitCode, tmp, tempDir>>
          ELSE /\ Catch(r)
               /\ UNCHANGED <<fs, result>>
  /\ UNCHANGED <<cfg, run, fs0, prevRun, proc, remote, step, attempt, lastError, fetchHead, sha, contents,
                 remoteHead, calls, gitLog>>

\* if (!dryRun && result.wrote && !eject) updateManifest(...); results.push.
RecordItem ==
  /\ pc = "record"
  /\ IF recordsManifest(cfg.dryRun, result.wrote, cfg.eject)
       THEN LET u == updateManifest(fs, cfg.manifestPath, remote)
            IN IF u.ok THEN fs' = u.fs /\ Succeed(result)
               ELSE fs' = fs /\ Catch(u)
       ELSE fs' = fs /\ Succeed(result)
  /\ UNCHANGED <<cfg, run, fs0, prevRun, proc, itemVars, remoteHead, calls, gitLog>>

Next == Start \/ AllocScratch \/ ParseItem \/ GitAttempt \/ WriteDest \/ RecordItem

\* The tool is run again, with the same arguments, in the directory the run
\* before it left: a new process, whose main starts over.
Rerun ==
  /\ pc \in {"done", "exit", "crashed"}
  /\ run < MaxRuns
  /\ run' = run + 1
  /\ fs0' = fs
  /\ prevRun' = [j \in 1..Len(results) |-> results[j].success]
  /\ pc' = "start" /\ i' = 1 /\ results' = <<>> /\ exitCode' = 0
  /\ tempDir' = NoDir
  /\ remote' = NoRemote /\ step' = 0 /\ attempt' = 0 /\ lastError' = Undefined
  /\ fetchHead' = "" /\ sha' = "" /\ contents' = NoBlob /\ result' = NoResult
  /\ calls' = <<>> /\ gitLog' = <<>> /\ console' = <<>>
  /\ UNCHANGED <<cfg, proc, tmp, fs, remoteHead>>

NextTwice == Next \/ Rerun

\* The tool is run once more on the file system the first run started from,
\* with the same arguments but for --quiet and --verbose; what the first run
\* left is kept for comparison.
Replay ==
  /\ pc \in {"done", "exit"}
  /\ run = 1
  /\ \E q \in BOOLEAN, v \in BOOLEAN :
       /\ <<q, v>> # <<cfg.quiet, cfg.verbose>>
       /\ cfg' = [cfg EXCEPT !.quiet = q, !.verbose = v]
  /\ run' = run + 1
  /\ fs' = fs0
  /\ prevRun' = [results |-> results, fs |-> fs, exitCode |-> exitCode, console |-> console]
  /\ pc' = "start" /\ i' = 1 /\ results' = <<>> /\ exitCode' = 0
  /\ tempDir' = NoDir
  /\ remote' = NoRemote /\ step' = 0 /\ attempt' = 0 /\ lastError' = Undefined
  /\ fetchHead' = "" /\ sha' = "" /\ contents' = NoBlob /\ result' = NoResult
  /\ calls' = <<>> /\ gitLog' = <<>> /\ console' = <<>>
  /\ UNCHANGED <<fs0, proc, tmp, remoteHead>>

NextSwitches == Next \/ Replay

\* The commits the remote's ref points to over time.
Commits == {"c1", "c2"}

\* Somebody pushes to the remote while an item is processed: the ref moves
\* to another commit.
RefMoves ==
  /\ pc \in {"parse", "git", "write", "record"}
  /\ remoteHead' \in Commits \ {remoteHead}
  /\ UNCHANGED <<cfg, run, fs0, prevRun, proc, pc, i, results, exitCode, tmp, tempDir, itemVars,
                 console, fs, calls, gitLog>>

NextMoving == Next \/ RefMoves

\* The runs of the tool that execute at the same time.
Procs == {"p", "q"}

\* The local state of a run of the tool that is at its call of
\* writeDestFile for the remote file r, whose contents it has retrieved.
AtWrite(r) ==
  [pc |-> "write", remote |-> r, contents |-> blobAt(r.commitSha, r.filePath),
   existing |-> <<>>, result |-> NoResult, success |-> FALSE]

mainVars == <<pc, i, results, exitCode, tmp, tempDir, itemVars, console, remoteHead, calls, gitLog>>

\* A step of the run p beside the others, which leaves the file system as f.
ProcStep(p, local, f) ==
  /\ proc' = [proc EXCEPT ![p] = local]
  /\ fs' = f
  /\ UNCHANGED <<cfg, run, fs0, prevRun, mainVars>>

\* The run p calls writeDestFile; when it throws the item fails, and when
\* the manifest is not to be updated the item is over.
ProcWriteDest(p) ==
  /\ proc[p].pc = "write"
  /\ LET r == writeDestFile(fs, proc[p].contents, proc[p].remote, cfg.dryRun, cfg.force,
                            cfg.maxBytes)
     IN IF ~r.ok
          THEN ProcStep(p, [proc[p] EXCEPT !.pc = "done"], fs)
        ELSE ProcStep(p, [proc[p] EXCEPT
                            !.pc = IF recordsManifest(cfg.dryRun, r.wrote, cfg.eject)
                                     THEN "read" ELSE "done",
                            !.success = ~recordsManifest(cfg.dryRun, r.wrote, cfg.eject),
                            !.result = [destFile |-> r.destFile, wrote |-> r.wrote]],
                      r.fs)

\* The run p is in updateManifest: const existing = readManifest(manifestPath).
ProcReadManifest(p) ==
  /\ proc[p].pc = "read"
  /\ LET read == readManifest(fs, cfg.manifestPath)
     IN IF ~read.ok
          THEN ProcStep(p, [proc[p] EXCEPT !.pc = "done"], fs)
        ELSE ProcStep(p, [proc[p] EXCEPT !.pc = "rewrite", !.existing = read.value], fs)

\* The run p is in updateManifest: existing.push(remote), ensureDirFor,
\* writeFileSync; then main pushes the success result.
ProcRewriteManifest(p) ==
  /\ proc[p].pc = "rewrite"
  /\ LET w == rewriteManifest(fs, cfg.manifestPath, proc[p].existing, proc[p].remote)
     IN IF ~w.ok
          THEN ProcStep(p, [proc[p] EXCEPT !.pc = "done"], fs)
        ELSE ProcStep(p, [proc[p] EXCEPT !.pc = "done", !.success = TRUE], w.fs)

NextConcurrent ==
  \E p \in Procs : ProcWriteDest(p) \/ ProcReadManifest(p) \/ ProcRewriteManifest(p)

\* The decimal digits.
DigitValue ==
  [d \in {"0", "1", "2", "3", "4", "5", "6", "7", "8", "9"} |->
     CASE d = "0" -> 0 [] d = "1" -> 1 [] d = "2" -> 2 [] d = "3" -> 3 [] d = "4" -> 4
       [] d = "5" -> 5 [] d = "6" -> 6 [] d = "7" -> 7 [] d = "8" -> 8 [] d = "9" -> 9]

(***************************************************************************)
(* The runs that are checked.                                              *)
(***************************************************************************)
\* Entries: '<repo>@<ref>:<path>' as typed on the command line.
InFile == <<"r", "@", "v", ":", "a">>
InNested == <<"r", ":", "a", "/", "b">>
InMissing == <<"r", "@", "v", ":", "x">>
InNoColon == <<"r", "@", "v">>
InTraversal == <<"r", ":", ".", ".", "/", "a">>
InLarge == <<"r", ":", "g">>

\* The lists of at most n entries over the set S.
RECURSIVE Lists(_, _)
Lists(S, n) ==
  IF n = 0 THEN {<<>>}
  ELSE LET shorter == Lists(S, n - 1)
       IN shorter \cup {Append(l, x) : l \in {m \in shorter : Len(m) = n - 1}, x \in S}

\* The manifest path: the default under the output root, or --manifest a/m.
DefaultManifestPath == manifestPathOf(NoFlag, cwd)
OtherManifestPath == manifestPathOf(Flag(<<"a", "/", "m">>), cwd)

\* The file system before the run: the working directory alone, or with a
\* file a already there, or with a manifest of one earlier entry.
BaseFs == [q \in {<<>>, cwd} |-> DirNode]
EarlierEntry ==
  [repo |-> <<"q">>, ref |-> DefaultRef, filePath |-> <<"z">>, destPath |-> <<"z">>,
   commitSha |-> "c0"]
InitialFs ==
  { BaseFs,
    writeFileSync(BaseFs, Append(cwd, <<"a">>), Blob(<<"a", "old">>, 1)).fs,
    writeFileSync(BaseFs, DefaultManifestPath, jsonStringify(<<EarlierEntry>>)).fs }

\* The names other processes left in os.tmpdir().
InitialTmp == { {}, {[name |-> tempName("1762300000002"), by |-> "others"]} }

\* timeoutMs when neither --timeout-ms nor the environment sets it.
defaultTimeoutMs == 60000

\* The options the runs below leave as they are without their flags: no
\* --config, --quiet, --verbose, --json, --timeout-ms, --out.
DefaultOptions ==
  [config |-> NoConfig, quiet |-> FALSE, verbose |-> FALSE, jsonOutput |-> FALSE,
   timeoutMs |-> defaultTimeoutMs, outDir |-> NoFlag]

\* The configurations with positional entries in E, retries in R, backoffMs
\* in B, dryRun in D and manifestPath in M.
Options(E, R, B, D, M) ==
  {c @@ DefaultOptions :
     c \in [positional : E, retries : R, backoffMs : B, dryRun : D, force : BOOLEAN,
            eject : BOOLEAN, maxBytes : {defaultMaxBytes}, manifestPath : M]}

\* The state main starts the run in, with the file system in F.
InitRun(F) ==
  /\ pc = "start"
  /\ i = 1
  /\ results = <<>>
  /\ exitCode = 0
  /\ tmp \in InitialTmp
  /\ tempDir = NoDir
  /\ remote = NoRemote /\ step = 0 /\ attempt = 0 /\ lastError = Undefined
  /\ fetchHead = "" /\ sha = "" /\ contents = NoBlob /\ result = NoResult
  /\ console = <<>>
  /\ fs \in F
  /\ remoteHead = "c1"
  /\ run = 1
  /\ fs0 = fs
  /\ prevRun = <<>>
  /\ proc = NoProcs
  /\ calls = <<>>
  /\ gitLog = <<>>

InitWith(E, R, B, D, M, F) == cfg \in Options(E, R, B, D, M) /\ InitRun(F)

\* Runs of up to MaxEntries entries, without retries.
Init ==
  InitWith(Lists({InFile, InNested, InNoColon, InLarge}, MaxEntries), {0}, {500},
           BOOLEAN, {DefaultManifestPath, OtherManifestPath}, InitialFs)

Spec == Init /\ [][Next]_vars

\* Runs of one entry, with up to MaxRetries retries, with --quiet.
InitRetry ==
  /\ cfg \in {[c EXCEPT !.quiet = TRUE] :
                c \in Options({<<>>, <<InFile>>, <<InMissing>>, <<InTraversal>>},
                              0..MaxRetries, {500, 3}, {FALSE}, {DefaultManifestPath})}
  /\ InitRun({BaseFs})

SpecRetry == InitRetry /\ [][Next]_vars

\* An entry whose path is the default name of the manifest.
InManifestName == <<"r", ":", ".git-remote-files.json">>

\* --manifest a: a path that an entry below a/ makes a directory.
DirManifestPath == manifestPathOf(Flag(<<"a">>), cwd)

\* The manifest before the run: none, one earlier entry, text that is no
\* JSON, JSON that is no array.
InitialManifestFs ==
  { BaseFs,
    writeFileSync(BaseFs, DefaultManifestPath, jsonStringify(<<EarlierEntry>>)).fs,
    writeFileSync(BaseFs, DefaultManifestPath, MalformedText).fs,
    writeFileSync(BaseFs, DefaultManifestPath, JsonObjectText).fs }

\* Runs that record what they fetch, over the states of the manifest.
InitManifest ==
  InitWith(Lists({InFile, InNested, InManifestName}, MaxEntries), {0}, {500}, {FALSE},
           {DefaultManifestPath, DirManifestPath}, InitialManifestFs)

SpecManifest == InitManifest /\ [][Next]_vars

\* Runs made one after the other, up to MaxRuns, from an empty working
\* directory and an empty temporary directory.
InitTwice ==
  /\ InitWith(Lists({InFile, InNested, InManifestName}, MaxEntries), {0}, {500}, {FALSE},
              {DefaultManifestPath}, {BaseFs})
  /\ tmp = {}

SpecTwice == InitTwice /\ [][NextTwice]_vars

\* The items of a config file: the string r@v:a; the objects {repo, path},
\* {repo, ref, path, dest: t/a}, {repo, filePath, destPath: t/a} and
\* {repo, ref: f@2, path}; an object without repo; a number.
ConfigItems ==
  { StringItem(InFile),
    ObjectItem(Str(<<"r">>), Absent, Str(<<"a", "/", "b">>), Absent, Absent, Absent),
    ObjectItem(Str(<<"r">>), Str(<<"v">>), Str(<<"a">>), Absent, Str(<<"t", "/", "a">>), Absent),
    ObjectItem(Str(<<"r">>), NotAString, Absent, Str(<<"a">>), Absent, Str(<<"t", "/", "a">>)),
    ObjectItem(Str(<<"r">>), Str(<<"f", "@", "2">>), Str(<<"a">>), Absent, Absent, Absent),
    ObjectItem(Absent, Absent, Str(<<"a">>), Absent, Absent, Absent),
    NumberItem }

\* The config files: missing, no JSON, no array, and the arrays of at most
\* MaxEntries items.
ConfigFiles ==
  {MissingFile, MalformedText, JsonObjectText}
    \cup {jsonStringify(l) : l \in Lists(ConfigItems, MaxEntries)}

\* Runs with --config, over these config files, with one positional entry
\* or none.
InitConfig ==
  /\ cfg \in {[c EXCEPT !.config = f, !.force = FALSE, !.eject = FALSE] :
                c \in Options({<<>>, <<InFile>>}, {0}, {500}, {FALSE}, {DefaultManifestPath}),
                f \in ConfigFiles}
  /\ InitRun({BaseFs})
  /\ tmp = {}

SpecConfig == InitConfig /\ [][Next]_vars

\* The parts of an entry.  Repos: a bare name, https://h/u/r.git, the SSH
\* location git@h:u/r.git and https://u:t@h/r.git (with credentials).
HttpsRepo == <<"https", ":", "/", "/", "h", "/", "u", "/", "r.git">>
SshRepo == <<"git", "@", "h", ":", "u", "/", "r.git">>
\* The secret of a URL with credentials, and the URL https://u:t@h/r.git.
Secret == "t"
CredRepo == <<"https", ":", "/", "/", "u", ":", Secret, "@", "h", "/", "r.git">>
ParseRepos == {<<"r">>, HttpsRepo, SshRepo, CredRepo}

\* Refs: none given, v, and the branch f/x.
NoRef == [given |-> FALSE]
Ref(v) == [given |-> TRUE, v |-> v]
ParseRefs == {NoRef, Ref(<<"v">>), Ref(<<"f", "/", "x">>)}

\* Paths: a, a/b, ./a, a/./b, a//b, a/c/../b, a\b, a/, the file ..c whose
\* name begins with two dots, and the invalid ../a, /a, .., a/../../b,
\* a\..\..\b, ~/a and a<NUL>.
ParsePaths ==
  { <<"a">>, <<"a", "/", "b">>, <<".", "/", "a">>, <<"a", "/", ".", "/", "b">>,
    <<"a", "/", "/", "b">>, <<"a", "/", "c", "/", ".", ".", "/", "b">>,
    <<"a", "\\", "b">>, <<"a", "/">>, <<".", ".", "/", "a">>, <<"/", "a">>,
    <<".", ".", "c">>, <<".", ".">>,
    <<"a", "/", ".", ".", "/", ".", ".", "/", "b">>,
    <<"a", "\\", ".", ".", "\\", ".", ".", "\\", "b">>,
    <<"~", "/", "a">>, <<"a", Nul>> }

\* The entry '<repo>@<ref>:<path>', or '<repo>:<path>' when no ref is given.
Compose(repo, ref, path) ==
  repo \o (IF ref.given THEN <<"@">> \o ref.v ELSE <<>>) \o <<":">> \o path

ParseInputs == {Compose(repo, ref, path) : repo \in ParseRepos, ref \in ParseRefs, path \in ParsePaths}

\* Entries without a ':': the empty text, r, r@v, a/b and ../a.
NoColonInputs ==
  { <<>>, <<"r">>, <<"r", "@", "v">>, <<"a", "/", "b">>, <<".", ".", "/", "a">> }

\* Dry runs of one entry, over the entries composed of these parts and the
\* entries without a ':'.
InitParse ==
  InitWith({<<x>> : x \in ParseInputs \cup NoColonInputs},
           {0}, {500}, {TRUE}, {DefaultManifestPath}, {BaseFs})

SpecParse == InitParse /\ [][Next]_vars

\* What --out is given as: nothing, a directory of the working directory,
\* the root directory of the file system.
OutDirs == {NoFlag, Flag(<<"o">>), Flag(<<"/">>)}

\* Quiet dry runs of one of the composed entries, over the values of --out.
InitParseOut ==
  /\ cfg \in {[c EXCEPT !.outDir = o, !.manifestPath = manifestPathOf(NoFlag, rootOf(o)),
                        !.quiet = TRUE, !.force = FALSE, !.eject = FALSE] :
                c \in Options({<<x>> : x \in ParseInputs}, {0}, {500}, {TRUE},
                              {DefaultManifestPath}),
                o \in OutDirs}
  /\ InitRun({BaseFs})
  /\ tmp = {}

SpecParseOut == InitParseOut /\ [][Next]_vars

\* Entries of the repo with credentials: a file, a missing path, a path
\* that is rejected; and an entry without credentials.
ConsoleInputs ==
  { Compose(CredRepo, Ref(<<"v">>), <<"a">>), Compose(CredRepo, NoRef, <<"x">>),
    Compose(CredRepo, Ref(<<"v">>), <<".", ".", "/", "a">>), InFile }

\* Runs of one of these entries, with one or two retries, with and without --quiet,
\* --verbose and --json.
InitConsole ==
  /\ cfg \in {[c EXCEPT !.quiet = q, !.verbose = v, !.jsonOutput = j,
                        !.force = FALSE, !.eject = FALSE] :
                c \in Options({<<x>> : x \in ConsoleInputs}, {1, 2}, {500}, {FALSE},
                              {DefaultManifestPath}),
                q \in BOOLEAN, v \in BOOLEAN, j \in BOOLEAN}
  /\ InitRun({BaseFs})
  /\ tmp = {}

SpecConsole == InitConsole /\ [][Next]_vars

\* Runs of up to MaxEntries entries, with --quiet, with up to one retry,
\* with the default timeout and with --timeout-ms 0.
InitTimeout ==
  /\ cfg \in {[c EXCEPT !.timeoutMs = t, !.quiet = TRUE, !.force = FALSE, !.eject = FALSE] :
                c \in Options(Lists({InFile, InMissing}, MaxEntries), {0, 1}, {500}, {FALSE},
                              {DefaultManifestPath}),
                t \in {defaultTimeoutMs, 0}}
  /\ InitRun({BaseFs})
  /\ tmp = {}

SpecTimeout == InitTimeout /\ [][Next]_vars

\* Runs without --manifest, with and without --out o.
InitOut ==
  /\ cfg \in {[c EXCEPT !.outDir = o, !.manifestPath = manifestPathOf(NoFlag, rootOf(o))] :
                c \in Options(Lists({InFile, InNested}, MaxEntries), {0}, {500}, BOOLEAN,
                              {DefaultManifestPath}),
                o \in {NoFlag, Flag(<<"o">>)}}
  /\ InitRun({BaseFs})

SpecOut == InitOut /\ [][Next]_vars

\* A run without --quiet and --verbose, on each of the initial file
\* systems, with and without --force, followed by the same run with other
\* switches.
InitSwitches ==
  /\ cfg \in {[c EXCEPT !.eject = FALSE] :
                c \in Options({<<InFile, InNested>>, <<InLarge, InNoColon>>}, {0}, {500},
                              {FALSE}, {DefaultManifestPath})}
  /\ InitRun(InitialFs)
  /\ tmp = {}

SpecSwitches == InitSwitches /\ [][NextSwitches]_vars

\* Number(text) is a number (not NaN), for the texts of integers.
isNumber(str) ==
  LET digits == IF Len(str) > 0 /\ str[1] \in {"-", "+"} THEN Tail(str) ELSE str
  IN Len(digits) > 0 /\ \A k \in 1..Len(digits) : digits[k] \in DOMAIN DigitValue

\* parseInt(text, 10) of the text of an integer.
RECURSIVE digitsValue(_)
digitsValue(digits) ==
  IF Len(digits) = 0 THEN 0
  ELSE 10 * digitsValue(SubSeq(digits, 1, Len(digits) - 1)) + DigitValue[digits[Len(digits)]]

parseInt(str) ==
  IF str[1] = "-" THEN 0 - digitsValue(Tail(str))
  ELSE IF str[1] = "+" THEN digitsValue(Tail(str))
  ELSE digitsValue(str)

\* src/src/index.ts:477
defaultRetries == 2

\* retries of main, for what getFlagValue(argv, 'retries') returned and for
\* the environment variable FETCH_GIT_FILE_RETRIES: the flag's number, else
\* the variable's, else 2.
retriesOf(retriesFlag, envRetries) ==
  IF retriesFlag # NoFlag /\ Len(retriesFlag.v) > 0 /\ isNumber(retriesFlag.v)
    THEN parseInt(retriesFlag.v)
  ELSE IF envRetries # NoFlag /\ Len(envRetries.v) > 0 /\ isNumber(envRetries.v)
    THEN parseInt(envRetries.v)
  ELSE defaultRetries

\* What --retries and FETCH_GIT_FILE_RETRIES are given as.
RetriesTexts == {NoFlag, Flag(<<"-", "1">>), Flag(<<"0">>), Flag(<<"1">>), Flag(<<"x">>)}

\* Quiet runs of one entry with the retry count the flag and the
\* environment give.
InitRetries ==
  /\ cfg \in {[c EXCEPT !.quiet = TRUE, !.force = FALSE, !.eject = FALSE] :
                c \in Options({<<InFile>>, <<InMissing>>},
                              {retriesOf(flag, env) : flag \in RetriesTexts, env \in RetriesTexts},
                              {500}, {FALSE}, {DefaultManifestPath})}
  /\ InitRun({BaseFs})
  /\ tmp = {}

SpecRetries == InitRetries /\ [][Next]_vars

\* Quiet runs with one retry against a remote whose ref moves.
InitMoving ==
  /\ cfg \in {[c EXCEPT !.quiet = TRUE] :
                c \in Options(Lists({InFile, InNested}, MaxEntries) \ {<<>>}, {1}, {500},
                              {FALSE}, {DefaultManifestPath})}
  /\ InitRun({BaseFs})
  /\ tmp = {}

SpecMoving == InitMoving /\ [][NextMoving]_vars

\* A second file of the remote.
InOther == <<"r", "@", "v", ":", "b">>

\* The entries two runs that execute at the same time fetch: each run has
\* retrieved the contents of its entry at the commit c1.
Fetched(input) ==
  LET r == parseRef(input).remote
  IN AtWrite([repo |-> r.repo, ref |-> r.ref, filePath |-> r.filePath,
              destPath |-> r.destPath, commitSha |-> "c1"])

\* Two runs of the tool, started with the same options in the same working
\* directory, each at the write of its one entry.
InitConcurrent ==
  /\ cfg \in Options({<<>>}, {0}, {500}, BOOLEAN, {DefaultManifestPath, OtherManifestPath})
  /\ pc = "start"
  /\ i = 1
  /\ results = <<>>
  /\ exitCode = 0
  /\ tmp = {}
  /\ tempDir = NoDir
  /\ remote = NoRemote /\ step = 0 /\ attempt = 0 /\ lastError = Undefined
  /\ fetchHead = "" /\ sha = "" /\ contents = NoBlob /\ result = NoResult
  /\ console = <<>>
  /\ fs \in InitialFs
  /\ remoteHead = "c1"
  /\ run = 1
  /\ fs0 = fs
  /\ prevRun = <<>>
  /\ proc \in {[p \in Procs |-> IF p = "p" THEN Fetched(InFile) ELSE Fetched(x)] :
                 x \in {InOther, InNested}}
  /\ calls = <<>>
  /\ gitLog = <<>>

SpecConcurrent == InitConcurrent /\ [][NextConcurrent]_vars

\* The destPath of the RemoteFile a caller hands to writeDestFile: a, a/b,
\* ., .., ../x, a/../../x, /e/x, ../w/a (out of the root and back in) and
\* ../wx (a sibling whose name starts with the root's).
WriterDestPaths ==
  { <<"a">>, <<"a", "/", "b">>, <<".">>, <<".", ".">>,
    <<".", ".", "/", "x">>, <<"a", "/", ".", ".", "/", ".", ".", "/", "x">>,
    <<"/", "e", "/", "x">>, <<".", ".", "/", "w", "/", "a">>,
    <<".", ".", "/", "w", "x">> }

\* The values of maxBytes, and the lengths of contents around each of them.
WriterLimits == {3, defaultMaxBytes}
WriterSizes == UNION {{l - 1, l, l + 1} : l \in WriterLimits}

\* The calls of writeDestFile: main is at the call, after a retrieval that
\* returned contents, with every value of the arguments.
InitWriter ==
  /\ cfg \in {[c EXCEPT !.maxBytes = n] :
                c \in Options({<<InFile>>}, {0}, {500}, BOOLEAN, {DefaultManifestPath}),
                n \in WriterLimits}
  /\ pc = "write"
  /\ i = 1
  /\ results = <<>>
  /\ exitCode = 0
  /\ tempDir = tempName("1762300000001")
  /\ tmp = {[name |-> tempDir, by |-> "run"]}
  /\ \E d \in WriterDestPaths :
       remote = [repo |-> <<"r">>, ref |-> <<"v">>, filePath |-> <<"a">>,
                 destPath |-> d, commitSha |-> "c1"]
  /\ step = 5 /\ attempt = 0 /\ lastError = Undefined
  /\ fetchHead = "c1" /\ sha = "c1"
  /\ \E n \in WriterSizes : contents = Blob(<<"a", "c1">>, n)
  /\ result = NoResult
  /\ console = <<>>
  /\ fs \in InitialFs
  /\ remoteHead = "c1"
  /\ run = 1
  /\ fs0 = fs
  /\ prevRun = <<>>
  /\ proc = NoProcs
  /\ calls = [j \in 1..Len(Protocol) |-> [cmd |-> Protocol[j], ok |-> TRUE]]
  /\ gitLog = <<[ev |-> "attempt", n |-> 1, ok |-> TRUE, message |-> "", delay |-> 0]>>

\* writeDestFile and what main does with what it returns.
NextWriter == WriteDest \/ RecordItem

SpecWriter == InitWriter /\ [][NextWriter]_vars

(***************************************************************************)
(* Properties.                                                             *)
(***************************************************************************)
Last(q) == q[Len(q)]
RunEnded == pc \in {"done", "crashed"}
InItem == pc \in {"parse", "git", "write", "record"}
ScratchOfRun == {d \in tmp : d.by = "run"}

\* C1: a run ends with exactly one FetchResult per entry, in input order:
\* the failure of an item, at any stage, does not keep the items after it
\* from being processed.
C1_OneResultPerEntryInOrder ==
  RunEnded =>
    /\ Len(results) = Len(entries)
    /\ \A j \in 1..Len(results) : results[j].input = entries[j]

\* C2: every error raised while an item is processed (scratch directory
\* allocation included) is caught at the per-item boundary and becomes that
\* item's failed FetchResult: no error leaves the item loop.
C2_NoErrorLeavesItemLoop ==
  /\ pc # "crashed"
  /\ (pc \in {"alloc", "done"} => Len(results) = i - 1)

\* C3: at the end of a run that processed at least one item, the status is
\* failure (exit code 1) exactly when some FetchResult has success = false.
C3_FailureIffSomeResultFailed ==
  (RunEnded /\ Len(results) >= 1) =>
    (exitCode = 1 <=> \E j \in 1..Len(results) : ~results[j].success)

\* C4: the run holds at most one scratch directory at any time, the one of
\* the item being processed, made by the run itself under a name nothing
\* else in the temporary directory has; none is left between items and none
\* after the run, whatever the outcome of the items.
C4_ScratchPerItemRemoved ==
  /\ Cardinality(ScratchOfRun) <= 1
  /\ (InItem => ScratchOfRun = {[name |-> tempDir, by |-> "run"]})
  /\ (~InItem => ScratchOfRun = {} /\ tempDir = NoDir)
  /\ \A d, e \in tmp : d.name = e.name => d = e

\* C4's case: a second item has its scratch directory after the first item
\* failed with an unexpected fault (no CliError).
C4_Witness ==
  /\ pc = "parse" /\ i = 2
  /\ results[1].errorCode = "UNKNOWN_ERROR"
  /\ Cardinality(ScratchOfRun) = 1

\* The attempts of the latest runGitWithRetry call, and whether that call
\* threw (it is then the last call of its item).
Attempts == SelectSeq(gitLog, LAMBDA e : e.ev = "attempt")
CallThrew == Len(calls) > 0 /\ ~Last(calls).ok
CallRuns == pc = "git" /\ attempt > 0

\* C5: the calls of one request are init, remote add, fetch, rev-parse,
\* show, in that order, each made only after the one before it returned;
\* when one of the first four throws, no later call is made and the item
\* fails with GIT_COMMAND_FAILED.
C5_ProtocolInOrder ==
  /\ Len(calls) <= Len(Protocol)
  /\ \A j \in 1..Len(calls) :
       calls[j].cmd = Protocol[j] /\ (j < Len(calls) => calls[j].ok)
  /\ (pc = "git" => step = Len(calls) + 1 /\ ~CallThrew)
  /\ (pc \in {"write", "record"} => Len(calls) = Len(Protocol) /\ ~CallThrew)
  /\ (CallThrew /\ Len(calls) < Len(Protocol) =>
        /\ pc \notin {"git", "write", "record"}
        /\ ~Last(results).success
        /\ Last(results).errorCode = "GIT_COMMAND_FAILED")

\* C5's case: the fetch exhausted its attempts after init and remote add
\* returned, with retries configured.
C5_Witness ==
  /\ CallThrew /\ Len(calls) = 3 /\ cfg.retries >= 1
  /\ Last(results).errorCode = "GIT_COMMAND_FAILED"

\* C6: a call makes at most retries + 1 attempts, numbered from 1; a
\* successful attempt is the last one and ends the call, which returns its
\* output; a call that throws made exactly retries + 1 attempts, all failed.
C6_AtMostRetriesPlusOneAttempts ==
  /\ Len(Attempts) <= cfg.retries + 1
  /\ \A j \in 1..Len(Attempts) :
       /\ Attempts[j].n = j
       /\ Attempts[j].ok => (j = Len(Attempts) /\ Last(gitLog) = Attempts[j]
                             /\ ~CallRuns /\ Last(calls).ok)
  /\ (CallThrew => /\ Len(Attempts) = cfg.retries + 1
                   /\ \A j \in 1..Len(Attempts) : ~Attempts[j].ok)
  /\ (pc = "write" => contents = blobAt(sha, remote.filePath) /\ contents # NoBlob
                      /\ sha = fetchHead /\ fetchHead = remoteHead)

\* C6's case: a call returned on its third attempt, with retries to spare.
C6_Witness ==
  /\ Len(Attempts) = 3 /\ Last(Attempts).ok /\ cfg.retries > 2

\* C7: the log of a call alternates failed attempt, wait, attempt, ...; the
\* wait after failed attempt n (n = 1, 2, ...) is backoffMs * 2^(n-1), it
\* follows every failed attempt but the last allowed one, and an attempt
\* that succeeds ends the call with success.
C7_ExponentialBackoff ==
  /\ \A j \in 1..Len(gitLog) :
       IF j % 2 = 1
         THEN /\ gitLog[j].ev = "attempt" /\ gitLog[j].n = (j + 1) \div 2
              /\ (~gitLog[j].ok /\ gitLog[j].n <= cfg.retries => j < Len(gitLog))
         ELSE /\ gitLog[j].ev = "wait" /\ gitLog[j].n = j \div 2
              /\ ~gitLog[j - 1].ok
              /\ gitLog[j].n <= cfg.retries
              /\ gitLog[j].delay = cfg.backoffMs * 2^(gitLog[j].n - 1)
  /\ (Len(gitLog) > 0 /\ Last(gitLog).ok => ~CallThrew /\ ~CallRuns)

\* C7's case: the call failed three times and succeeded on the fourth
\* attempt, with more retries allowed (k = 3 < retries).
C7_Witness ==
  /\ Len(gitLog) = 7 /\ Last(gitLog).ok /\ cfg.retries > 3
  /\ [j \in 1..3 |-> gitLog[2 * j].delay]
       = <<cfg.backoffMs, 2 * cfg.backoffMs, 4 * cfg.backoffMs>>

\* C8: when a call throws, its error is GIT_COMMAND_FAILED with the message
\* of the last attempt's failure (for git show, the message that
\* fetchFileMinimal wraps).
C8_LastFailureSurfaced ==
  CallThrew =>
    /\ ~Last(results).success
    /\ IF Len(calls) < Len(Protocol)
         THEN /\ Last(results).errorCode = "GIT_COMMAND_FAILED"
              /\ Last(results).errorMessage = Last(Attempts).message
         ELSE Last(Last(results).errorMessage) = Last(Attempts).message

\* C8's case: all attempts failed, the last with another message than the
\* first.
C8_Witness ==
  /\ CallThrew /\ Len(calls) < Len(Protocol)
  /\ Len(Attempts) >= 2 /\ Attempts[1].message # Last(Attempts).message

\* C9: an item fails with SOURCE_FILE_NOT_FOUND exactly when git show
\* failed and the path is not in the tree of the resolved commit; a git show
\* that fails on a path that is there is GIT_COMMAND_FAILED.
C9_NotFoundOnlyForMissingPath ==
  (CallThrew /\ Len(calls) = Len(Protocol)) =>
    IF blobAt(sha, remote.filePath) = NoBlob
      THEN Last(results).errorCode = "SOURCE_FILE_NOT_FOUND"
      ELSE Last(results).errorCode = "GIT_COMMAND_FAILED"

\* The entries a reader of the manifest finds in the file system f.
ManifestEntries(f) ==
  LET r == readManifest(f, cfg.manifestPath) IN IF r.ok THEN r.value ELSE <<>>

\* The manifest file can be rewritten: its path is no directory and no
\* segment of its directory is a file.
ManifestRewritable(f) ==
  /\ ~(cfg.manifestPath \in DOMAIN f /\ f[cfg.manifestPath].type = "dir")
  /\ \A q \in Prefixes(dirname(cfg.manifestPath)) : q \in DOMAIN f => f[q].type = "dir"

\* The step that ends the processing of the current item.
ItemEnds == InItem /\ pc' \in {"alloc", "done"}
EntryAppended == ManifestEntries(fs') = Append(ManifestEntries(fs), remote)
WrittenUnsuppressed == result.wrote /\ ~cfg.dryRun /\ ~cfg.eject

ValidManifest(f) ==
  /\ existsSync(f, cfg.manifestPath)
  /\ f[cfg.manifestPath].type = "file"
  /\ f[cfg.manifestPath].data.kind = "json"

\* The step in which the current item is recorded in the manifest.
RecordedStep ==
  /\ pc = "record"
  /\ recordsManifest(cfg.dryRun, result.wrote, cfg.eject)
  /\ Last(results').success

\* C11: the manifest is append-only: from a manifest that holds a JSON
\* array, or from no manifest, every step of a run leaves the entries as
\* they are, but the step that records an item, which appends that item's
\* entry after them; so the manifest is the initial entries followed by one
\* entry per recorded item, in input order.
C11_ManifestAppendOnly ==
  [][(ValidManifest(fs) \/ ~existsSync(fs, cfg.manifestPath)) =>
       ManifestEntries(fs') = IF RecordedStep THEN Append(ManifestEntries(fs), remote)
                              ELSE ManifestEntries(fs)]_vars

\* The manifest path holds a directory; it holds nothing that reads as an
\* array (no file, or a file whose text is no JSON array).
ManifestIsDir(f) == existsSync(f, cfg.manifestPath) /\ f[cfg.manifestPath].type = "dir"
NoArrayThere(f) ==
  \/ ~existsSync(f, cfg.manifestPath)
  \/ f[cfg.manifestPath].type = "file" /\ f[cfg.manifestPath].data.kind # "json"

\* The step in which main calls updateManifest.
UpdatesManifest == pc = "record" /\ recordsManifest(cfg.dryRun, result.wrote, cfg.eject)

FetchedBefore ==
  \/ \E j \in 1..(i - 1) : entries[j] = entries[i] /\ results[j].success
  \/ run > 1 /\ i <= Len(prevRun) /\ prevRun[i]

\* C13: with overwrite disabled and no dry run, the second fetch of an
\* entry (in the same run or in the next run) whose retrieval succeeds
\* writes nothing: the writer returns wrote = false, the item is a success,
\* and the destination tree and the manifest are left as they were.
C13_SecondFetchSkips ==
  [][(pc \in {"write", "record"} /\ ~cfg.force /\ ~cfg.dryRun /\ FetchedBefore) =>
       /\ fs' = fs
       /\ pc = "write" => (pc' = "record" /\ ~result'.wrote)
       /\ pc = "record" => (~result.wrote /\ Last(results').success)]_vars

\* C13's case: the second run ended; its two items name the same entry,
\* both were skipped with success, and the destination holds what the first
\* run fetched, recorded once.
C13_Witness ==
  /\ run = 2 /\ pc = "done" /\ ~cfg.force /\ ~cfg.eject
  /\ entries = <<InFile, InFile>>
  /\ prevRun = <<TRUE, TRUE>>
  /\ Len(results) = 2 /\ results[1].success /\ results[2].success
  /\ fs[Append(destRootDir, <<"a">>)] = FileNode(blobAt(remoteHead, <<"a">>))
  /\ Len(ManifestEntries(fs)) = 1

\* C14: a dry run writes nothing: at every point of the run the file system
\* under the working directory (destination files, their directories, the
\* manifest) is what it was when the run started.
C14_DryRunWritesNothing == cfg.dryRun => fs = fs0

\* C14's case: a dry run ended after an item whose destination's directory
\* does not exist succeeded and an item over the size ceiling failed.
C14_Witness ==
  /\ cfg.dryRun /\ pc = "done"
  /\ entries = <<InNested, InLarge>>
  /\ results[1].success /\ results[2].errorCode = "FILE_TOO_LARGE"
  /\ ~existsSync(fs, Append(destRootDir, <<"a">>))
  /\ ~existsSync(fs, cfg.manifestPath)

\* What the writer of a dry run returns for the current item: a dry run
\* with the same entries, configuration, initial file system and tool
\* behaviour reaches the writer with the same remote and contents, on the
\* file system of the start (C14), and records nothing.
SimulatedWrite == writeDestFile(fs0, contents, remote, TRUE, cfg.force, cfg.maxBytes)

\* C15: an item of a run that is no dry run is classified as the dry run
\* classifies it: the same success flag and, for a failure, the same
\* errorCode.  (Items that fail before the writer fail alike in both runs.)
C15_SimulatedClassifiesAlike ==
  [][(~cfg.dryRun /\ ItemEnds /\ pc \in {"write", "record"}) =>
       /\ Last(results').success = SimulatedWrite.ok
       /\ ~SimulatedWrite.ok => Last(results').errorCode = errorCodeOf(SimulatedWrite)]_vars

\* The resolved path p is the output root or lies below it, segment by
\* segment.
UnderRoot(p) ==
  Len(p) >= Len(destRootDir) /\ SubSeq(p, 1, Len(destRootDir)) = destRootDir

\* The paths on which the file systems f and g differ.
Changed(f, g) ==
  {p \in DOMAIN f \cup DOMAIN g : p \notin DOMAIN f \/ p \notin DOMAIN g \/ f[p] # g[p]}

\* The destination of the current item.
DestFile == resolve(destRootDir, remote.destPath)

\* C16: every path writeDestFile creates or changes is the output root or
\* below it; for a destination that is not, the item fails with
\* DEST_OUT_OF_BOUNDS and the file system is left as it was (no directory,
\* no file, and, the item being over, no manifest entry).
C16_WritesOnlyUnderRoot ==
  [][pc = "write" =>
       /\ \A p \in Changed(fs, fs') : UnderRoot(p)
       /\ ~UnderRoot(DestFile) =>
            /\ fs' = fs
            /\ ItemEnds
            /\ ~Last(results').success
            /\ Last(results').errorCode = "DEST_OUT_OF_BOUNDS"]_vars

\* C16's case: the destination ../wx, a sibling of the root whose name
\* starts with the root's, was refused and nothing was written.
C16_Witness ==
  /\ pc = "done" /\ ~cfg.dryRun /\ cfg.force
  /\ remote.destPath = <<".", ".", "/", "w", "x">>
  /\ Last(results).errorCode = "DEST_OUT_OF_BOUNDS"
  /\ fs = fs0

\* Nothing on the path to p keeps a file from being written at p.
Writable(f, p) ==
  /\ \A q \in Prefixes(dirname(p)) : q \in DOMAIN f => f[q].type = "dir"
  /\ ~(p \in DOMAIN f /\ f[p].type = "dir")

\* C18: for a destination under the root, contents longer than maxBytes
\* fail the item with FILE_TOO_LARGE, whose message states the length and
\* the limit, and nothing is written; contents of at most maxBytes bytes
\* never fail with FILE_TOO_LARGE, and are written when the run is no dry
\* run, no existing file is kept and the destination can be written.
C18_CeilingInclusive ==
  [][(pc = "write" /\ UnderRoot(DestFile)) =>
       IF length(contents) > cfg.maxBytes
         THEN /\ ItemEnds /\ fs' = fs
              /\ Last(results').errorCode = "FILE_TOO_LARGE"
              /\ Last(results').errorMessage[3] = length(contents)
              /\ Last(results').errorMessage[4] = cfg.maxBytes
         ELSE /\ ItemEnds => Last(results').errorCode # "FILE_TOO_LARGE"
              /\ (~cfg.dryRun /\ (cfg.force \/ ~existsSync(fs, DestFile))
                    /\ Writable(fs, DestFile)) =>
                   /\ pc' = "record" /\ result'.wrote
                   /\ fs'[DestFile] = FileNode(contents)]_vars

\* C18's case: contents of exactly maxBytes bytes were written.
C18_Witness ==
  /\ pc = "record" /\ result.wrote
  /\ length(contents) = cfg.maxBytes
  /\ existsSync(fs, DestFile) /\ fs[DestFile] = FileNode(contents)

\* The current entry comes from the config file.
FromConfig == InItem /\ i > Len(cfg.positional)

\* The item of the config file the current entry comes from.
configItem == cfg.config.value[i - Len(cfg.positional)]

\* The dest of a config item: dest ?? destPath.
destOf(item) == coalesce(item.dest, item.destPath)

\* C17: when the config item of the current entry is an object with a
\* dest, the writer's destination is the output root joined with that dest,
\* and destPath of the RemoteFile that goes into the manifest is that dest.
C17_DestOverrideHonoured ==
  (pc = "record" /\ FromConfig) =>
     LET item == configItem
     IN (item.type = "object" /\ destOf(item).t = "string") =>
          /\ result.destFile = resolve(destRootDir, destOf(item).v)
          /\ remote.destPath = destOf(item).v

\* The item has just been parsed: remote is what parseRef returned.
Parsed == pc = "git" /\ step = 1 /\ attempt = 0

\* The path is one the parser accepts.
ValidPath(path) == normalizeAndValidateRelativePath(path).ok

\* The characters of a string.
Chars(str) == {str[k] : k \in 1..Len(str)}

\* C19: for an entry composed of a repo, a ref (or none, for a repo
\* without '@') and a valid path, the parser returns that repo, that ref
\* ("main" for none) and the normal form of the path: slashes for
\* backslashes, normalized (a fixed point of normalization that resolves to
\* the same place as the path); the repo and the ref are the parts of the
\* text before the last ':' on either side of its last '@'.
C19_ParseRecoversParts ==
  Parsed =>
    /\ \A repo \in ParseRepos, ref \in ParseRefs, path \in ParsePaths :
         (entries[i] = Compose(repo, ref, path) /\ (ref.given \/ "@" \notin Chars(repo))) =>
           /\ ValidPath(path)
           /\ remote.repo = repo
           /\ remote.ref = (IF ref.given THEN ref.v ELSE DefaultRef)
           /\ remote.filePath = posixNormalize(replaceBackslashes(path))
           /\ posixNormalize(remote.filePath) = remote.filePath
           /\ resolve(destRootDir, remote.filePath)
                = resolve(destRootDir, replaceBackslashes(path))
    /\ LET input == entries[i]
           colon == Max({k \in 1..Len(input) : input[k] = ":"})
           ats == {k \in 1..(colon - 1) : input[k] = "@"}
       IN IF ats = {}
            THEN remote.repo = SubSeq(input, 1, colon - 1) /\ remote.ref = DefaultRef
            ELSE /\ remote.repo = SubSeq(input, 1, Max(ats) - 1)
                 /\ remote.ref = SubSeq(input, Max(ats) + 1, colon - 1)

\* C19's case: git@h:u/r.git@f/x:a/c/../b was parsed.
C19_Witness ==
  /\ Parsed
  /\ entries[i] = Compose(SshRepo, Ref(<<"f", "/", "x">>),
                              <<"a", "/", "c", "/", ".", ".", "/", "b">>)
  /\ remote.repo = SshRepo
  /\ remote.ref = <<"f", "/", "x">>
  /\ remote.filePath = <<"a", "/", "b">>

\* The repo forms of docs/usage.md: an https URL and an SSH location.
DocumentedRepos == {HttpsRepo, SshRepo}

\* C20: an entry '<repo>:<path>' of a documented repo form and a valid
\* path is parsed with ref "main" and with the whole '<repo>' as its repo.
C20_NoRefDefaultsToMain ==
  \A repo \in DocumentedRepos, path \in ParsePaths :
     (pc \in {"git", "write", "record"} /\ entries[i] = Compose(repo, NoRef, path)) =>
       remote.ref = DefaultRef /\ remote.repo = repo

\* The path of an entry: the text after its last ':'.
HasColon(input) == ":" \in Chars(input)
PathOf(input) ==
  SubSeq(input, Max({k \in 1..Len(input) : input[k] = ":"}) + 1, Len(input))

\* The normal form of a path: slashes for backslashes, POSIX-normalized.
NormalForm(path) == posixNormalize(replaceBackslashes(path))

\* A normal form that starts with '/', '~' or '..', contains '/../' or
\* contains NUL.
Escaping(n) ==
  \/ Len(n) >= 1 /\ n[1] \in {"/", "~"}
  \/ Len(n) >= 2 /\ SubSeq(n, 1, 2) = <<".", ".">>
  \/ \E k \in 1..(Len(n) - 3) : SubSeq(n, k, k + 3) = <<"/", ".", ".", "/">>
  \/ Nul \in Chars(n)

\* C21: an item gets past the parser only with the normal form of its path,
\* and that form does not start with '/', '~' or '..', is not '..',
\* contains no '/../' and no NUL; an entry whose path violates this ends
\* with INVALID_PATH.
C21_EscapingPathsRejected ==
  /\ pc \in {"git", "write", "record"} =>
       /\ HasColon(entries[i])
       /\ ~Escaping(NormalForm(PathOf(entries[i])))
       /\ remote.filePath = NormalForm(PathOf(entries[i]))
  /\ \A j \in 1..Len(results) :
       (HasColon(results[j].input) /\ Escaping(NormalForm(PathOf(results[j].input)))) =>
          ~results[j].success /\ results[j].errorCode = "INVALID_PATH"

\* C21's case: r:a/../../b, whose normal form is ../b, ended with
\* INVALID_PATH.
C21_Witness ==
  /\ Len(results) = 1
  /\ results[1].input = Compose(<<"r">>, NoRef,
                                <<"a", "/", ".", ".", "/", ".", ".", "/", "b">>)
  /\ NormalForm(PathOf(results[1].input)) = <<".", ".", "/", "b">>
  /\ results[1].errorCode = "INVALID_PATH"

\* A normal form that leaves the root: its first segment is '..', or it is
\* absolute, or starts with '~', or contains NUL.
LeavesRoot(n) ==
  \/ split(n, "/")[1] = <<".", ".">>
  \/ Len(n) >= 1 /\ n[1] \in {"/", "~"}
  \/ Nul \in Chars(n)

\* C22: an entry is rejected with INVALID_PATH only if the normal form of
\* its path leaves the root; a path whose first segment merely begins with
\* two dots is accepted.
C22_OnlyEscapingRejected ==
  \A j \in 1..Len(results) :
     (~results[j].success /\ results[j].errorCode = "INVALID_PATH") =>
        LeavesRoot(NormalForm(PathOf(results[j].input)))

\* C23: an entry without ':' ends in the parser with INVALID_REF_FORMAT,
\* and no git call is made for it.
C23_NoColonIsFormatError ==
  [][(pc = "parse" /\ ~HasColon(entries[i])) =>
       /\ ItemEnds
       /\ ~Last(results').success
       /\ Last(results').input = entries[i]
       /\ Last(results').errorCode = "INVALID_REF_FORMAT"
       /\ calls' = <<>> /\ gitLog' = <<>>]_vars

\* C23's case: the entry r@v ended with INVALID_REF_FORMAT.
C23_Witness ==
  /\ Len(results) = 1
  /\ results[1].input = <<"r", "@", "v">>
  /\ results[1].errorCode = "INVALID_REF_FORMAT"
  /\ calls = <<>>

\* A config item with the fields loadConfigFile asks for: a string, or an
\* object with a string repo and a string path (path, or filePath when
\* there is no path).
ValidItem(item) ==
  \/ item.type = "string"
  \/ /\ item.type = "object"
     /\ item.repo.t = "string"
     /\ \/ item.path.t = "string"
        \/ item.path.t = "absent" /\ item.filePath.t = "string"

\* --config names a file that is missing, is no JSON, is no array, or has
\* an invalid element.
LoadFails ==
  /\ cfg.config # NoConfig
  /\ \/ cfg.config.kind # "json"
     \/ \E k \in 1..Len(cfg.config.value) : ~ValidItem(cfg.config.value[k])

\* C25: when the config file does not load, the run ends with status 1
\* before any item: no entry is processed, no scratch directory is made,
\* no git call is made and the file system is as it was.
C25_ConfigFailureAbortsRun ==
  LoadFails =>
    /\ pc \in {"start", "exit"}
    /\ pc = "exit" => exitCode = 1
    /\ results = <<>> /\ i = 1
    /\ tempDir = NoDir /\ ScratchOfRun = {}
    /\ calls = <<>> /\ gitLog = <<>>
    /\ fs = fs0

\* C25's case: a run with a positional entry and a config file whose
\* second element is invalid ended with status 1.
C25_Witness ==
  /\ pc = "exit" /\ exitCode = 1
  /\ cfg.positional = <<InFile>>
  /\ cfg.config.kind = "json" /\ Len(cfg.config.value) = 2
  /\ ValidItem(cfg.config.value[1]) /\ ~ValidItem(cfg.config.value[2])

\* C26: the request parsed for a config object {repo, ref?, path} has the
\* repo of the object, its ref ("main" when it has none) and the normal
\* form of its path.
C26_ObjectPartsRecovered ==
  (Parsed /\ FromConfig) =>
     LET item == configItem
         pathVal == coalesce(item.path, item.filePath)
     IN (item.type = "object" /\ item.ref.t \in {"absent", "string"}) =>
          /\ remote.repo = item.repo.v
          /\ remote.ref = (IF item.ref.t = "string" THEN item.ref.v ELSE DefaultRef)
          /\ remote.filePath = NormalForm(pathVal.v)

C27_RunTerminates ==
  /\ pc # "hung"
  /\ pc = "done" => Len(results) = Len(entries)

\* The error codes of a FetchResult.
ErrorCodes ==
  {"INVALID_REF_FORMAT", "INVALID_PATH", "SOURCE_FILE_NOT_FOUND", "FILE_TOO_LARGE",
   "DEST_OUT_OF_BOUNDS", "GIT_COMMAND_FAILED", "UNKNOWN_ERROR"}

\* C28: a FetchResult is a success with destFile and remote (with the
\* resolved commitSha) and no error fields, or a failure with errorMessage
\* and an errorCode of the taxonomy and neither destFile nor remote.
C28_ResultShapes ==
  \A j \in 1..Len(results) :
     LET r == results[j]
     IN IF r.success
          THEN /\ DOMAIN r = {"input", "success", "destFile", "remote"}
               /\ "commitSha" \in DOMAIN r.remote
               /\ r.remote.commitSha = remoteHead
          ELSE /\ DOMAIN r = {"input", "success", "errorCode", "errorMessage"}
               /\ r.errorCode \in ErrorCodes

\* C28's case: a run reported a success and then a failure of the writer
\* that is no CliError.
C28_Witness ==
  /\ Len(results) = 2
  /\ results[1].success
  /\ ~results[2].success /\ results[2].errorCode = "UNKNOWN_ERROR"

\* What git did for the item of a result: the error of the retrieval, or
\* nothing to report.
GitOutcome(r) ==
  IF ~r.success /\ r.errorCode \in {"GIT_COMMAND_FAILED", "SOURCE_FILE_NOT_FOUND"}
    THEN <<r.errorCode, r.errorMessage>>
  ELSE <<"returned">>

\* The second run ended, and git did for each item what it did in the first.
ReplayedAlike ==
  /\ run = 2 /\ pc \in {"done", "exit"}
  /\ Len(results) = Len(prevRun.results)
  /\ \A j \in 1..Len(results) : GitOutcome(results[j]) = GitOutcome(prevRun.results[j])

\* C29: two runs from the same file system that differ only in --quiet and
\* --verbose, and in which git behaves alike, end with the same FetchResults,
\* the same files and manifest, and the same status.
C29_SwitchesChangeLogOnly ==
  ReplayedAlike =>
    /\ results = prevRun.results
    /\ fs = prevRun.fs
    /\ exitCode = prevRun.exitCode

\* C29's case: a quiet run that wrote a file and failed on another item
\* logged less than the run before it and ended like it.
C29_Witness ==
  /\ ReplayedAlike
  /\ cfg.quiet
  /\ Len(console) < Len(prevRun.console)
  /\ \E j \in 1..Len(results) : results[j].success
  /\ \E j \in 1..Len(results) : ~results[j].success
  /\ fs # fs0

\* The files of the file system that hold a manifest written by the run.
ManifestsWritten ==
  {p \in DOMAIN fs :
     /\ fs[p].type = "file" /\ fs[p].data.kind = "json"
     /\ ~(existsSync(fs0, p) /\ fs0[p] = fs[p])}

ItemFails == ItemEnds /\ ~Last(results').success

\* C31: within one item the stages run in the order parse, retrieve, write,
\* record; a stage that fails ends the item: a parse failure has run no
\* step of the external tool, the file system changes in the write and
\* record stages only (a retrieval failure has written nothing), a failure
\* of the containment or size check leaves the file system, the manifest
\* with it, as it was, and the record stage touches the manifest only after
\* a write that wrote.
C31_StagesInOrder ==
  [][/\ pc' = "git" => pc \in {"parse", "git"}
     /\ pc' = "write" => pc = "git" /\ step = 5 /\ Last(calls').ok
     /\ pc' = "record" => pc = "write"
     /\ (pc = "parse" /\ pc' # "git") =>
          ItemFails /\ calls' = <<>> /\ gitLog' = <<>> /\ fs' = fs
     /\ (pc = "git" /\ pc' \notin {"git", "write"}) => ItemFails
     /\ pc \in {"parse", "git"} => fs' = fs
     /\ (pc = "write" /\ pc' # "record") =>
          /\ ItemFails /\ fs' = fs
          /\ ManifestEntries(fs') = ManifestEntries(fs)
     /\ pc \in {"write", "record"} => calls' = calls /\ gitLog' = gitLog
     /\ (pc = "record" /\ fs' # fs) => result.wrote /\ EntryAppended
    ]_vars

\* C31's case: a run whose first item failed the size check after its five
\* tool steps, and whose second item failed in the parser without any.
C31_Witness ==
  /\ pc = "done" /\ Len(results) = 2
  /\ ~results[1].success /\ results[1].errorCode = "FILE_TOO_LARGE"
  /\ ~results[2].success /\ results[2].errorCode = "INVALID_REF_FORMAT"
  /\ calls = <<>> /\ fs = fs0


(***************************************************************************)
(* A remote whose ref moves.                                               *)
(***************************************************************************)
\* The blob of the current item's path at the commit the item recorded.
BlobAtRecorded == blobAt(remote.commitSha, remote.filePath)

\* C32: the content written for an item is the content of its path at the
\* commit recorded as commitSha, in the result and in the manifest entry,
\* wherever the remote's ref has moved to while the item was processed.
C32_ContentOfRecordedCommit ==
  [][/\ (pc = "write" /\ pc' = "record" /\ result'.wrote) =>
          /\ remote.commitSha = sha /\ sha \in Commits
          /\ fs'[result'.destFile] = FileNode(BlobAtRecorded)
     /\ (pc = "record" /\ ItemEnds /\ Last(results').success) =>
          /\ Last(results').remote.commitSha = remote.commitSha
          /\ result.wrote => fs[result.destFile] = FileNode(BlobAtRecorded)
          /\ fs' # fs => /\ Last(ManifestEntries(fs')).commitSha = remote.commitSha
                         /\ fs'[result.destFile] = FileNode(BlobAtRecorded)
    ]_vars

\* C32's case: an item was written and recorded in the manifest with a
\* commit the remote's ref has moved away from before the content was read.
C32_Witness ==
  /\ pc = "done" /\ Last(results).success /\ result.wrote
  /\ ManifestEntries(fs) # <<>>
  /\ Last(ManifestEntries(fs)).commitSha = "c2"
  /\ Last(results).remote.commitSha = "c2"
  /\ remoteHead = "c1"
  /\ \E k \in 1..Len(gitLog) : gitLog[k].ev = "wait"


(***************************************************************************)
(* The order of the writer's checks.                                       *)
(***************************************************************************)
\* The step of writeDestFile that keeps an existing destination: success,
\* wrote = false, the file system as it was, and the warning.
SkippedExisting ==
  /\ pc = "write" /\ pc' = "record"
  /\ ~result'.wrote /\ fs' = fs
  /\ Len(console') = Len(console) + 1 /\ Last(console').method = "warn"

\* C33: writeDestFile checks containment, then the size ceiling, then the
\* existence of the destination: a destination outside the root fails with
\* DEST_OUT_OF_BOUNDS whatever the size; content over the ceiling fails with
\* FILE_TOO_LARGE also when the destination exists and overwrite is off;
\* the skipped-existing outcome is the outcome exactly of content within
\* the ceiling for an existing destination within the root without
\* overwrite.
C33_ContainmentSizeExistence ==
  [][pc = "write" =>
       /\ ~UnderRoot(DestFile) =>
            ItemEnds /\ Last(results').errorCode = "DEST_OUT_OF_BOUNDS"
       /\ (UnderRoot(DestFile) /\ length(contents) > cfg.maxBytes) =>
            ItemEnds /\ Last(results').errorCode = "FILE_TOO_LARGE" /\ console' # console
       /\ SkippedExisting <=>
            /\ UnderRoot(DestFile) /\ length(contents) <= cfg.maxBytes
            /\ existsSync(fs, DestFile) /\ ~cfg.force
    ]_vars

\* C33's case: content over the ceiling for a destination that exists, in a
\* run without --force, failed with FILE_TOO_LARGE.
C33_Witness ==
  /\ pc = "done" /\ ~cfg.force /\ ~cfg.dryRun
  /\ existsSync(fs0, DestFile) /\ fs0[DestFile].type = "file"
  /\ length(contents) > cfg.maxBytes
  /\ ~Last(results).success /\ Last(results).errorCode = "FILE_TOO_LARGE"
  /\ fs = fs0


(***************************************************************************)
(* The warning before a retry wait.                                        *)
(***************************************************************************)
\* The step of runGitWithRetry that starts the wait before a retry.
RetryWaitStarts ==
  /\ pc = "git" /\ gitLog' # gitLog
  /\ Len(gitLog') > 0 /\ Last(gitLog').ev = "wait"

\* The line states the number n of the failed attempt and the delay.
StatesAttemptAndDelay(line, n, delay) ==
  /\ line.method = "warn"
  /\ \E k \in 1..(Len(line.text) - 1) :
       line.text[k] = " failed (attempt " /\ line.text[k + 1] = ToString(n)
  /\ \E k \in 1..(Len(line.text) - 1) :
       line.text[k] = "). Retrying in " /\ line.text[k + 1] = ToString(delay)

\* The wait that starts is announced by one new line of the console.
WaitAnnounced ==
  /\ Len(console') = Len(console) + 1
  /\ SubSeq(console', 1, Len(console)) = console
  /\ StatesAttemptAndDelay(Last(console'), Last(gitLog').n, Last(gitLog').delay)

\* C34 as claimed: before every retry wait a warning is written that states
\* the number of the failed attempt and the delay, in every configuration,
\* --quiet and --json included.
C34_WarningBeforeEveryWait == [][RetryWaitStarts => WaitAnnounced]_vars

\* C34 as amended: before every retry wait of a run that is not quiet
\* (neither --quiet nor --json) a warning is written that states the number
\* of the failed attempt and the delay; in a quiet run the wait starts
\* without any output.
C34_WarningUnlessQuiet ==
  [][RetryWaitStarts =>
       IF cfg.quiet \/ cfg.jsonOutput THEN console' = console ELSE WaitAnnounced]_vars

\* C34's case: the second retry wait of a call was announced in a run that
\* is not quiet.
C34_Witness ==
  /\ ~cfg.quiet /\ ~cfg.jsonOutput
  /\ pc = "git" /\ attempt = 2
  /\ Len(gitLog) > 0 /\ Last(gitLog).ev = "wait" /\ Last(gitLog).n = 2
  /\ Len(console) > 0
  /\ StatesAttemptAndDelay(Last(console), 2, 2 * cfg.backoffMs)


(***************************************************************************)
(* Runs that execute at the same time.                                     *)
(***************************************************************************)
\* The run p ended with its content written and its item successful.
FetchedAndWritten(p) ==
  /\ proc[p].pc = "done" /\ proc[p].success /\ proc[p].result.wrote
  /\ existsSync(fs, proc[p].result.destFile)
  /\ fs[proc[p].result.destFile] = FileNode(proc[p].contents)

\* The manifest lacks the entry of the run p.
EntryLost(p) == \A k \in 1..Len(ManifestEntries(fs)) : ManifestEntries(fs)[k] # proc[p].remote

\* C35: the read and the rewrite of updateManifest are two steps, between
\* which another run can rewrite the file: when two runs that update the
\* same manifest have both written their file and ended successfully, the
\* manifest is what the run that rewrote last had read, plus its entry; it
\* holds the other run's entry only if the last one read it, and otherwise
\* that entry is lost.
C35_LastRewriteWins ==
  (~cfg.dryRun /\ ~cfg.eject /\ \A p \in Procs : FetchedAndWritten(p)) =>
    \E p \in Procs :
      /\ ManifestEntries(fs) = Append(proc[p].existing, proc[p].remote)
      /\ \A q \in Procs \ {p} :
           EntryLost(q) <=> \A k \in 1..Len(proc[p].existing) : proc[p].existing[k] # proc[q].remote

\* C35's case: both runs wrote their file and ended successfully, and the
\* manifest lacks the entry of one of them.
C35_Witness ==
  /\ ~cfg.dryRun /\ ~cfg.eject
  /\ \A p \in Procs : FetchedAndWritten(p)
  /\ EntryLost("p") /\ ~EntryLost("q")
  /\ Len(ManifestEntries(fs)) = Len(ManifestEntries(fs0)) + 1


(***************************************************************************)
(* The retry counts the configuration passes in.                           *)
(***************************************************************************)
\* C36: for every retry count main passes to runGitWithRetry, a call that
\* threw has run at least one attempt, and GIT_COMMAND_FAILED carries the
\* message of the failure of its last attempt.
C36_EveryStepAttempted ==
  CallThrew =>
    /\ Len(Attempts) >= 1
    /\ ~Last(Attempts).ok
    /\ Last(results).errorCode = "GIT_COMMAND_FAILED" =>
         Last(results).errorMessage = Last(Attempts).message


(***************************************************************************)
(* What a failed item leaves behind.                                       *)
(***************************************************************************)
\* C37: a failed item leaves the destination tree and the manifest as they
\* were when it started; stated for the first item of a run, which starts
\* on the file system the run started on.
C37_FailedItemChangesNothing ==
  (pc \in {"alloc", "done"} /\ Len(results) = 1 /\ ~results[1].success) => fs = fs0


(***************************************************************************)
(* A destination that is the manifest file.                                *)
(***************************************************************************)
\* C38: when an item ends successfully with its content written, the
\* destination file holds the fetched bytes, also when the destination is
\* the manifest path.
C38_DestinationHoldsFetchedBytes ==
  [][(ItemEnds /\ Last(results').success /\ result.wrote) =>
       /\ existsSync(fs', result.destFile)
       /\ fs'[result.destFile] = FileNode(contents)]_vars


(***************************************************************************)
(* The two traversal defences.                                             *)
(***************************************************************************)
\* C39: an entry that parseRef accepts passes the containment check of
\* writeDestFile: no item of a run fails with DEST_OUT_OF_BOUNDS, whatever
\* the output root.
C39_ParsedNeverOutOfBounds ==
  \A k \in 1..Len(results) :
    ~results[k].success => results[k].errorCode # "DEST_OUT_OF_BOUNDS"


(***************************************************************************)
(* The retry budget of a path that is not there.                           *)
(***************************************************************************)
\* The time waited in the waits of a log.
RECURSIVE TotalWait(_)
TotalWait(log) ==
  IF Len(log) = 0 THEN 0
  ELSE (IF Head(log).ev = "wait" THEN Head(log).delay ELSE 0) + TotalWait(Tail(log))

\* The path of the current item is absent at the resolved commit.
PathAbsent == step = 5 /\ blobAt(sha, remote.filePath) = NoBlob

\* C40: when the path is absent at the resolved commit, git show never
\* returns, and its call throws only after retries + 1 attempts and waits of
\* backoffMs * (2^retries - 1) in all; the item then fails with
\* SOURCE_FILE_NOT_FOUND.
C40_MissingPathUsesWholeBudget ==
  PathAbsent =>
    /\ pc \notin {"write", "record"}
    /\ (CallRuns \/ pc # "git") => \A j \in 1..Len(Attempts) : ~Attempts[j].ok
    /\ pc # "git" =>
         /\ CallThrew /\ Last(calls).cmd = "show"
         /\ Len(Attempts) = cfg.retries + 1
         /\ TotalWait(gitLog) = cfg.backoffMs * (2^cfg.retries - 1)
         /\ ~Last(results).success
         /\ Last(results).errorCode = "SOURCE_FILE_NOT_FOUND"

\* C40's case: git show said each time that the path is not in the commit,
\* and was run four times, with waits of 7 * backoffMs, before the item
\* failed.
C40_Witness ==
  /\ PathAbsent /\ pc = "done" /\ cfg.retries = 3
  /\ Len(Attempts) = 4
  /\ \A j \in 1..4 : Attempts[j].message = NoPathMessage
  /\ TotalWait(gitLog) = 7 * cfg.backoffMs
  /\ Last(results).errorCode = "SOURCE_FILE_NOT_FOUND"

====
